---- MODULE Spec2Model ----
(***************************************************************************)
(* A model of the agent-scoped chat gateway of src/index.js: the bounded   *)
(* conversation histories (addTelegramMessage, addDashboardMessage), the   *)
(* web chat handler (POST /chat/:id with searchDocs and askLLM), the admin *)
(* update handler (POST /admin/:id) and the per-agent Telegram polling     *)
(* supervisor (startTelegramBot, stopTelegramBot, the start closure with   *)
(* its 409 retries and the polling_error restart chain), the bot's message  *)
(* handler (bot.on('message')), agent creation (POST /agents with          *)
(* ensureCollection), the ingestion of uploaded documents, the writes of   *)
(* the two JSON files, the /docs routes (listDocs, removeDoc) and the      *)
(* shutdown on SIGINT and SIGTERM.                                         *)
(*                                                                         *)
(* Every await of the source is a point where a handler is suspended: the  *)
(* model has one action for the synchronous code up to the await and one   *)
(* action per way the awaited call can settle.                             *)
(***************************************************************************)
EXTENDS Integers, Sequences, FiniteSets, TLC

VARIABLES
    telegramHistory,    \* index.js:68  { [agentId]: { [chatId]: [{role,text}] } }
    dashboardHistory,   \* index.js:69  { [sessionId]: [{role,text}] }
    saveHistoryCalls,   \* number of saveHistory() writes issued (index.js:76)
    tgAppended,         \* history variable: every turn ever passed to addTelegramMessage, per bucket
    dashAppended,       \* history variable: every turn ever passed to addDashboardMessage, per bucket
    agents,             \* index.js:33  { [id]: agent record }
    chatReqs,           \* the POST /chat/:id handlers suspended at an await, per slot
    chatCount,          \* number of POST /chat/:id requests received
    telegramBots,       \* index.js:921  { [agentId]: { bot, token } }
    bots,               \* every TelegramBot instance created so far, in creation order
    adminReqs,          \* the POST /admin/:id handlers suspended at an await, per slot
    faultsLeft,         \* how many more Telegram calls the environment lets fail or conflict
    cleared,            \* history variable: agents whose last supervisor call was the stop of a cleared credential
    points,             \* the vector store: every point upserted so far, in write order
    savedAgents,        \* the table the last saveAgents() wrote to agents.json (index.js:58)
    clock,              \* Date.now()
    disk,               \* chathistory.json and agents.json, and the writeFile calls in flight
    createReqs,         \* the POST /agents handlers suspended at an await, per slot
    docReqs,            \* the /docs handlers suspended at an await, per slot
    proc,               \* the process: running or exited, the signals caught, the joins of shutdown
    msgReqs,            \* the bot.on('message') handlers suspended at an await, per slot
    tgSent,             \* history variable: every bot.sendMessage that was delivered, in order
    msgCount,           \* number of inbound bot messages with text received
    event               \* history variable: what the step just taken did (a response, a call)

histVars == <<telegramHistory, dashboardHistory, saveHistoryCalls, tgAppended, dashAppended>>
chatVars == <<chatReqs, chatCount>>
botVars == <<telegramBots, bots, adminReqs, faultsLeft, cleared>>
regVars == <<points, savedAgents, clock, createReqs, docReqs, proc, disk>>
msgVars == <<msgReqs, tgSent, msgCount>>

vars == <<histVars, agents, chatVars, botVars, regVars, msgVars, event>>

-----------------------------------------------------------------------------
(* Bounds of the model and constants of the program *)

\* the literal 5 of `length > 5` / `slice(-5)` in both append functions
HistoryWindow == 5

\* total number of turns appended in one behaviour of SpecHistory
MaxAppends == 6

AgentIds == {"a1", "a2"}
ChatIds == {"c1"}
SessionIds == {"ip1-a1"}
Roles == {"user", "bot"}
\* a string is the sequence of its characters
Texts == {<<"x">>, <<"y">>}

NoEvent == [kind |-> "none"]

\* the handlers of one route that can be suspended at the same time
ChatSlots == {1, 2}
Ips == {"ip1"}
Messages == {<<"h", "i">>, <<"q">>}

\* number of POST /chat/:id requests in one behaviour of SpecChat
MaxChats == 3

Idle == [pc |-> "idle"]

AdminSlots == {1}
CreateSlots == {1, 2}
DocSlots == {1, 2}
MsgSlots == {1, 2}
Tokens == {"t1", "t2"}

\* `attempt < 5` of the start closure (index.js:942)
RetryLimit == 5
\* `const delay = 5000` (index.js:943)
RetryDelay == 5000

\* number of TelegramBot instances created in one behaviour
MaxBots == 2
\* number of failing Telegram calls and 409 polling errors in one behaviour of Spec
MaxFaults == 1
\* the same in one behaviour of SpecLifecycle, which follows a single connection
MaxConflicts == 7
\* cap on the number of points the vector store takes
MaxPoints == 2

Turn(role, text) == [role |-> role, text |-> text]

-----------------------------------------------------------------------------
(* JavaScript helpers *)

SliceFirst(s, n) ==
    IF Len(s) <= n THEN s ELSE SubSeq(s, 1, n)

\* Array.prototype.slice(-n): the last n elements, the whole array when it is shorter
SliceLast(s, n) ==
    IF Len(s) <= n THEN s ELSE SubSeq(s, Len(s) - n + 1, Len(s))

\* obj[key] || [] for a table of arrays
GetOrEmpty(table, key) ==
    IF key \in DOMAIN table THEN table[key] ELSE <<>>

\* obj[key] = value (creates or overwrites the property)
Put(table, key, value) ==
    [k \in DOMAIN table \cup {key} |-> IF k = key THEN value ELSE table[k]]

-----------------------------------------------------------------------------
(* Conversation memory, index.js:83-99 *)

PushBucketKeepAll(bucket, role, text) ==
    Append(bucket, Turn(role, text))

\* bucket.push({role, text}); if (bucket.length > 5) bucket = bucket.slice(-5)
PushBucket(bucket, role, text) ==
    LET pushed == Append(bucket, Turn(role, text))
    IN  IF Len(pushed) > HistoryWindow THEN SliceLast(pushed, HistoryWindow) ELSE pushed

\* the table after addTelegramMessage(agentId, chatId, role, text)
addTelegramMessage(table, agentId, chatId, role, text) ==
    LET chats    == IF agentId \in DOMAIN table THEN table[agentId] ELSE [c \in {} |-> <<>>]
     bucket   == GetOrEmpty(chats, chatId)
    IN  Put(table, agentId, Put(chats, chatId, PushBucket(bucket, role, text)))

\* the table after addDashboardMessage(sessionId, role, text)
addDashboardMessage(table, sessionId, role, text) ==
    Put(table, sessionId, PushBucket(GetOrEmpty(table, sessionId), role, text))

\* history variable: the unbounded log of what was appended to a bucket
LogAppend(log, key, role, text) ==
    Put(log, key, Append(GetOrEmpty(log, key), Turn(role, text)))

TotalAppended ==
    LET RECURSIVE Sum(_, _)
        Sum(log, keys) ==
            IF keys = {} THEN 0
            ELSE LET k == CHOOSE x \in keys : TRUE
                 IN  Len(log[k]) + Sum(log, keys \ {k})
    IN  Sum(tgAppended, DOMAIN tgAppended) + Sum(dashAppended, DOMAIN dashAppended)

HistInit ==
    /\ telegramHistory = [a \in {} |-> <<>>]     \* chathistory.json absent: {}
    /\ dashboardHistory = [s \in {} |-> <<>>]
    /\ saveHistoryCalls = 0
    /\ tgAppended = [k \in {} |-> <<>>]
    /\ dashAppended = [k \in {} |-> <<>>]

\* The two files and the fs.promises.writeFile calls in flight.  JSON.stringify runs
\* when the save is called, so a write carries the table as it was then.  `follow`
\* says whether the run follows the writes in flight; where it does not, a save
\* leaves no trace here.
\* the process before any signal: no handler of SIGINT or SIGTERM has run
\*   caught   the signals whose once-handler has run
\*   joins    per run of shutdown, the instances whose stopPolling() its Promise.all
\*            still waits for
\*   issued   history field: every instance shutdown called stopPolling() on
Running == [pc |-> "running", caught |-> {}, joins |-> <<>>, issued |-> {}]

NoWrites(historyTable, agentsTable) ==
    [follow |-> FALSE, writes |-> <<>>, history |-> historyTable, agents |-> agentsTable,
     failed |-> FALSE]

\* a save that issues no write
saveSkipped(d, file, table) == d

\* fs.promises.writeFile(FILE, JSON.stringify(table, null, 2)), index.js:59-60 and 78-79
save(d, file, table) ==
    IF d.follow THEN [d EXCEPT !.writes = Append(@, [file |-> file, content |-> table])] ELSE d

saveHistory(d, table) == save(d, "history", table)
saveAgents(d, table) == save(d, "agents", table)

\* nothing stored, agents.json as loaded, no create request and no bot message in flight
QuietInit ==
    /\ disk = NoWrites(telegramHistory, agents)
    /\ points = <<>>
    /\ savedAgents = agents
    /\ clock = 1
    /\ createReqs = [s \in CreateSlots |-> Idle]
    /\ docReqs = [s \in DocSlots |-> Idle]
    /\ proc = Running
    /\ msgReqs = [s \in MsgSlots |-> Idle]
    /\ tgSent = <<>>
    /\ msgCount = 0

HistOnlyInit ==
    /\ HistInit
    /\ agents = [a \in {} |-> <<>>]
    /\ chatReqs = [s \in ChatSlots |-> Idle]
    /\ chatCount = 0
    /\ telegramBots = [a \in {} |-> <<>>]
    /\ bots = <<>>
    /\ adminReqs = [s \in AdminSlots |-> Idle]
    /\ faultsLeft = 0
    /\ cleared = {}
    /\ QuietInit
    /\ event = NoEvent

AddTelegramMessage(agentId, chatId, role, text) ==
    /\ TotalAppended < MaxAppends
    /\ telegramHistory' = addTelegramMessage(telegramHistory, agentId, chatId, role, text)
    /\ saveHistoryCalls' = saveHistoryCalls + 1
    /\ disk' = saveHistory(disk, telegramHistory')
    /\ tgAppended' = LogAppend(tgAppended, <<agentId, chatId>>, role, text)
    /\ UNCHANGED <<dashboardHistory, dashAppended, agents, chatVars, botVars, event,
                   points, savedAgents, clock, createReqs, docReqs, proc, msgVars>>

AddDashboardMessage(sessionId, role, text) ==
    /\ TotalAppended < MaxAppends
    /\ dashboardHistory' = addDashboardMessage(dashboardHistory, sessionId, role, text)
    /\ dashAppended' = LogAppend(dashAppended, sessionId, role, text)
    /\ UNCHANGED <<telegramHistory, saveHistoryCalls, tgAppended, agents, chatVars, botVars, event, regVars, msgVars>>

HistNext ==
    \/ \E a \in AgentIds, c \in ChatIds, r \in Roles, t \in Texts : AddTelegramMessage(a, c, r, t)
    \/ \E s \in SessionIds, r \in Roles, t \in Texts : AddDashboardMessage(s, r, t)

SpecHistory == HistOnlyInit /\ [][HistNext]_vars

\* every bucket of both stores, paired with the log of what was appended to it
Buckets ==
    { <<telegramHistory[k[1]][k[2]], tgAppended[k]>> : k \in DOMAIN tgAppended }
    \cup { <<dashboardHistory[k], dashAppended[k]>> : k \in DOMAIN dashAppended }

\* C1: in every reachable state every history bucket, telegramHistory[agentId][chatId]
\* and dashboardHistory[sessionId] alike, holds at most 5 turns.
C1_BucketAtMostFive ==
    /\ \A a \in DOMAIN telegramHistory : \A c \in DOMAIN telegramHistory[a] :
            Len(telegramHistory[a][c]) <= 5
    /\ \A s \in DOMAIN dashboardHistory : Len(dashboardHistory[s]) <= 5

\* a bucket that is full after more than 5 turns were appended to it
C1_Witness ==
    \/ \E k \in DOMAIN tgAppended :
            Len(tgAppended[k]) > 5 /\ Len(telegramHistory[k[1]][k[2]]) = 5
    \/ \E k \in DOMAIN dashAppended :
            Len(dashAppended[k]) > 5 /\ Len(dashboardHistory[k]) = 5

\* C2: after N turns were appended to a bucket it holds the last min(N, 5) of them,
\* oldest first: all N when N <= 5, exactly the last 5 when N > 5.
C2_BucketIsLastFive ==
    /\ DOMAIN telegramHistory = { k[1] : k \in DOMAIN tgAppended }
    /\ \A a \in DOMAIN telegramHistory :
            DOMAIN telegramHistory[a] = { k[2] : k \in { x \in DOMAIN tgAppended : x[1] = a } }
    /\ DOMAIN dashboardHistory = DOMAIN dashAppended
    /\ \A p \in Buckets :
            LET bucket == p[1]
                log    == p[2]
                n      == Len(log)
                kept   == IF n > 5 THEN 5 ELSE n
            IN  /\ Len(bucket) = kept
                /\ \A i \in 1..kept : bucket[i] = log[n - kept + i]

\* a bucket that received more than 5 turns, whose evicted oldest turn differs from
\* the oldest turn it retains
C2_Witness ==
    \E p \in Buckets :
        /\ Len(p[2]) > 5
        /\ p[2][1] # p[1][1]
        /\ p[1][5] = p[2][Len(p[2])]

-----------------------------------------------------------------------------
(* Strings *)

Whitespace == {" ", "\n", "\t"}

RECURSIVE TrimStart(_)
TrimStart(s) ==
    IF s # <<>> /\ Head(s) \in Whitespace THEN TrimStart(Tail(s)) ELSE s

RECURSIVE TrimEnd(_)
TrimEnd(s) ==
    IF s # <<>> /\ s[Len(s)] \in Whitespace THEN TrimEnd(SubSeq(s, 1, Len(s) - 1)) ELSE s

\* String.prototype.trim()
Trim(s) == TrimEnd(TrimStart(s))

\* Array.prototype.join(sep)
RECURSIVE Join(_, _)
Join(parts, sep) ==
    IF parts = <<>> THEN <<>>
    ELSE IF Len(parts) = 1 THEN parts[1]
    ELSE parts[1] \o sep \o Join(Tail(parts), sep)

\* 'Sorry, could not generate an answer.'  (index.js:217)
LLMFallback ==
    <<"S","o","r","r","y",","," ","c","o","u","l","d"," ","n","o","t"," ",
      "g","e","n","e","r","a","t","e"," ","a","n"," ","a","n","s","w","e","r",".">>

\* 'You are a helpful assistant.'  (index.js:202)
DefaultInstruction ==
    <<"Y","o","u"," ","a","r","e"," ","a"," ","h","e","l","p","f","u","l"," ",
      "a","s","s","i","s","t","a","n","t",".">>

-----------------------------------------------------------------------------
(* Retrieval and generation, index.js:152-219 *)

\* what qdrant.search can return for a query: the payload texts of the hits
SearchResults == { <<>>, << <<"d","1">> >>, << <<"d","1">>, <<"d","2">> >> }

\* how the two backend calls of searchDocs can settle: the embedding or the search
\* throws, or the search returns hits
SearchOutcomes == {[ok |-> FALSE, hits |-> <<>>]} \cup {[ok |-> TRUE, hits |-> h] : h \in SearchResults}

\* what the generation backend can answer: an HTTP error, a body without
\* choices[0].message.content, or a completion with some content
LLMContents == { <<>>, <<" ">>, <<"o","k">>, <<" ","o","k","\n">> }
LLMOutcomes ==
    {[kind |-> "error", content |-> <<>>], [kind |-> "malformed", content |-> <<>>]}
    \cup {[kind |-> "ok", content |-> c] : c \in LLMContents}

\* searchDocs: results.map(r => r.payload.text).join('\\n'), '' when anything throws
searchDocs(outcome) ==
    IF outcome.ok THEN Join(outcome.hits, <<"\\", "n">>) ELSE <<>>

\* the messages array with every history turn, none cut off
LLMMessagesAllHistory(agent, context, question, history) ==
    << [role |-> "system",
        content |-> IF agent.instruction # <<>> THEN agent.instruction ELSE DefaultInstruction] >>
    \o [i \in 1..Len(history) |->
            [role |-> IF history[i].role = "bot" THEN "assistant" ELSE history[i].role,
             content |-> history[i].text]]
    \o << [role |-> "user",
           content |-> IF context # <<>> THEN context \o <<"\n", "\n">> \o question ELSE question] >>

\* the messages array askLLM posts (index.js:201-208)
LLMMessages(agent, context, question, history) ==
    << [role |-> "system",
        content |-> IF agent.instruction # <<>> THEN agent.instruction ELSE DefaultInstruction] >>
    \o [i \in 1..Len(SliceLast(history, 5)) |->
            LET m == SliceLast(history, 5)[i]
            IN  [role |-> IF m.role = "bot" THEN "assistant" ELSE m.role, content |-> m.text]]
    \o << [role |-> "user",
           content |-> IF context # <<>> THEN context \o <<"\n", "\n">> \o question ELSE question] >>

\* askLLM's result: res.data.choices[0].message.content.trim(), the fallback when the
\* request or the property access throws
askLLM(outcome) ==
    IF outcome.kind = "ok" THEN Trim(outcome.content) ELSE LLMFallback

-----------------------------------------------------------------------------
(* Agent registry, index.js:787-791 *)

\* The values a JSON request body can carry for a field, tagged with their type.
\* A number is kept as its literal. A field the body does not carry is undefined and
\* is modelled by its absence from the record (see Has).
Num(lit) == [type |-> "number", val |-> lit]
Str(s) == [type |-> "string", val |-> s]
Bool(b) == [type |-> "boolean", val |-> b]
Null == [type |-> "null", val |-> "null"]

\* the strings of the model that Number() reads as a number other than 0
NumericStrings == {"0.5", "2"}

\* Number(v) as isNaN applies it: null is 0, true is 1, false is 0, a string is the
\* number it spells, 0 when it is empty or blank, NaN otherwise
ToNumber(v) ==
    CASE v.type = "number" -> v.val
      [] v.type = "null" -> "0"
      [] v.type = "boolean" -> IF v.val = "true" THEN "1" ELSE "0"
      [] v.type = "string" -> IF v.val \in NumericStrings THEN v.val
                              ELSE IF v.val \in {"", " "} THEN "0" ELSE "NaN"

\* the global isNaN of lines 824-826, for a value that is not undefined
isNaN(v) == ToNumber(v) = "NaN"

\* 'a' + Date.now()  (index.js:789)
NewId(t) == "a" \o ToString(t)

\* the record POST /agents stores for a new id (index.js:790-791)
NewAgent(id, name, telegramToken) ==
    [id |-> id, name |-> IF name # <<>> THEN name ELSE <<"A", "g", "e", "n", "t">>, instruction |-> <<>>,
     temperature |-> Num("0.7"), topP |-> Num("1"), topK |-> Num("3"),
     collection |-> "agent_" \o id, telegramToken |-> telegramToken]

-----------------------------------------------------------------------------
(* Web chat, POST /chat/:id, index.js:881-898 *)

\* `history` of line 888 is the bucket's array object itself when the bucket exists:
\* a push by another handler shows through it until the bucket is replaced by a
\* slice, after which the variable still holds the replaced array.
HistoryRef(sessionId) ==
    IF sessionId \in DOMAIN dashboardHistory
    THEN [live |-> TRUE, snap |-> <<>>]
    ELSE [live |-> FALSE, snap |-> <<>>]

Deref(ref, sessionId) ==
    IF ref.live THEN dashboardHistory[sessionId] ELSE ref.snap

\* what one addDashboardMessage on `bucket` does to the references other handlers hold
RefsAfterPush(reqs, sessionId, bucket, role, text) ==
    [s \in DOMAIN reqs |->
        IF reqs[s].pc = "searchDocs" /\ reqs[s].sessionId = sessionId /\ reqs[s].history.live
           /\ Len(bucket) + 1 > HistoryWindow
        THEN [reqs[s] EXCEPT !.history = [live |-> FALSE, snap |-> Append(bucket, Turn(role, text))]]
        ELSE reqs[s]]

\* lines 883-884: unknown agent
ChatPostNotFound(id) ==
    /\ chatCount < MaxChats
    /\ id \notin DOMAIN agents
    /\ chatCount' = chatCount + 1
    /\ event' = [kind |-> "chat", agent |-> id, status |-> 404]
    /\ UNCHANGED <<histVars, agents, chatReqs, botVars, regVars, msgVars>>

\* lines 883-889, up to `await searchDocs(...)`
ChatPost(slot, ip, id, message) ==
    /\ chatCount < MaxChats
    /\ chatReqs[slot] = Idle
    /\ id \in DOMAIN agents
    /\ LET sessionId == ip \o "-" \o agents[id].id
       IN  chatReqs' = [chatReqs EXCEPT ![slot] =
                [pc |-> "searchDocs", agent |-> id, sessionId |-> sessionId,
                 message |-> message, history |-> HistoryRef(sessionId)]]
    /\ chatCount' = chatCount + 1
    /\ event' = NoEvent
    /\ UNCHANGED <<histVars, agents, botVars, regVars, msgVars>>

\* searchDocs settles; line 890 up to `await askLLM(...)`: the messages are built now
ChatSearchDocsDone(slot, outcome) ==
    /\ chatReqs[slot].pc = "searchDocs"
    /\ LET r == chatReqs[slot]
           context == searchDocs(outcome)
           history == Append(Deref(r.history, r.sessionId), Turn("user", r.message))
       IN  chatReqs' = [chatReqs EXCEPT ![slot] =
                [pc |-> "askLLM", agent |-> r.agent, sessionId |-> r.sessionId,
                 message |-> r.message, searchOk |-> outcome.ok,
                 messages |-> LLMMessages(agents[r.agent], context, r.message, history)]]
    /\ event' = NoEvent
    /\ UNCHANGED <<histVars, agents, chatCount, botVars, regVars, msgVars>>

\* askLLM settles; lines 891-893
ChatAskLLMDone(slot, outcome) ==
    /\ chatReqs[slot].pc = "askLLM"
    /\ LET r == chatReqs[slot]
           answer == askLLM(outcome)
           bucket0 == GetOrEmpty(dashboardHistory, r.sessionId)
           table1 == addDashboardMessage(dashboardHistory, r.sessionId, "user", r.message)
           table2 == addDashboardMessage(table1, r.sessionId, "bot", answer)
           reqs1 == RefsAfterPush(chatReqs, r.sessionId, bucket0, "user", r.message)
           reqs2 == RefsAfterPush(reqs1, r.sessionId, table1[r.sessionId], "bot", answer)
       IN  /\ dashboardHistory' = table2
           /\ dashAppended' = LogAppend(LogAppend(dashAppended, r.sessionId, "user", r.message),
                                        r.sessionId, "bot", answer)
           /\ chatReqs' = [reqs2 EXCEPT ![slot] = Idle]
           /\ event' = [kind |-> "chat", agent |-> r.agent, status |-> 200, answer |-> answer,
                        searchOk |-> r.searchOk, llm |-> outcome.kind]
    /\ UNCHANGED <<telegramHistory, saveHistoryCalls, tgAppended, agents, chatCount, botVars, regVars, msgVars>>

ChatInit ==
    /\ HistInit
    /\ agents = [a \in {"a1"} |-> NewAgent(a, <<>>, "")]
    /\ chatReqs = [s \in ChatSlots |-> Idle]
    /\ chatCount = 0
    /\ telegramBots = [a \in {} |-> <<>>]
    /\ bots = <<>>
    /\ adminReqs = [s \in AdminSlots |-> Idle]
    /\ faultsLeft = 0
    /\ cleared = {}
    /\ QuietInit
    /\ event = NoEvent

ChatNext ==
    \/ \E id \in AgentIds : ChatPostNotFound(id)
    \/ \E slot \in ChatSlots, ip \in Ips, id \in AgentIds, m \in Messages : ChatPost(slot, ip, id, m)
    \/ \E slot \in ChatSlots, o \in SearchOutcomes : ChatSearchDocsDone(slot, o)
    \/ \E slot \in ChatSlots, o \in LLMOutcomes : ChatAskLLMDone(slot, o)

SpecChat == ChatInit /\ [][ChatNext]_vars

\* C10: a web chat request for an existing agent always answers 200 with a non-empty
\* answer string, whatever the retrieval and generation backends did.
C10_ChatAnswerNonEmpty ==
    (event.kind = "chat" /\ event.agent \in DOMAIN agents)
        => (event.status = 200 /\ event.answer # <<>>)

\* the part of C10 about the failure path: with retrieval and generation both failing,
\* the answer is the fixed fallback string
ChatFallbackWhenBackendsFail ==
    (event.kind = "chat" /\ event.status = 200 /\ ~event.searchOk /\ event.llm # "ok")
        => event.answer = LLMFallback

-----------------------------------------------------------------------------
(* Telegram supervisor, index.js:919-987 *)

\* delete obj[key]
Remove(table, key) ==
    [k \in DOMAIN table \ {key} |-> table[k]]

\* new TelegramBot(token, { polling: { autoStart: false } }) followed by start():
\* the closure runs up to its first await, so deleteWebHook is already issued.
\*   polling   the update loop of this instance is running
\*   stopping  a stopPolling() issued by the supervisor has not settled yet
\*   startPc   where the start closure is: awaiting deleteWebHook, awaiting
\*             startPolling, waiting for its retry timer, started, or gaveUp
\*   restart   where the polling_error restart chain is
\*   handlers  the events bot.on(...) registered a handler for
\*   attemptsMade, restarts   history fields: start attempts and restart cycles so far
NewBot(agentId, token) ==
    [agent |-> agentId, token |-> token, polling |-> FALSE, stopping |-> FALSE,
     startPc |-> "deleteWebHook", attempt |-> 0, attemptsMade |-> 1, delay |-> 0,
     restart |-> "none", restarts |-> 0, handlers |-> {"polling_error", "message"}]

\* bot.stopPolling() on a running loop settles later; on an idle instance it is
\* already settled
StopPollingCall(bs, b) ==
    IF bs[b].polling THEN [bs EXCEPT ![b].stopping = TRUE] ELSE bs

startTelegramBotAlwaysRestart(tb, bs, agent) ==
    LET token == agent.telegramToken
        has   == agent.id \in DOMAIN tb
        new   == Len(bs) + 1
    IN  IF token = ""
        THEN [telegramBots |-> tb, bots |-> bs, outcome |-> "noToken", old |-> 0, new |-> 0]
        ELSE [telegramBots |-> Put(tb, agent.id, [bot |-> new, token |-> token]),
              bots |-> Append(IF has THEN StopPollingCall(bs, tb[agent.id].bot) ELSE bs,
                              NewBot(agent.id, token)),
              outcome |-> IF has THEN "replaced" ELSE "created",
              old |-> IF has THEN tb[agent.id].bot ELSE 0, new |-> new]

\* startTelegramBot(agent), lines 923-950: the supervisor table and the instances after
\* the call
startTelegramBot(tb, bs, agent) ==
    LET token == agent.telegramToken
        has   == agent.id \in DOMAIN tb
        new   == Len(bs) + 1
    IN  IF token = ""
        THEN [telegramBots |-> tb, bots |-> bs, outcome |-> "noToken", old |-> 0, new |-> 0]
        ELSE IF has /\ tb[agent.id].token = token
        THEN [telegramBots |-> tb, bots |-> bs, outcome |-> "same", old |-> 0, new |-> 0]
        ELSE [telegramBots |-> Put(tb, agent.id, [bot |-> new, token |-> token]),
              bots |-> Append(IF has THEN StopPollingCall(bs, tb[agent.id].bot) ELSE bs,
                              NewBot(agent.id, token)),
              outcome |-> IF has THEN "replaced" ELSE "created",
              old |-> IF has THEN tb[agent.id].bot ELSE 0, new |-> new]

\* stopTelegramBot(agentId), lines 981-987
stopTelegramBot(tb, bs, agentId) ==
    IF agentId \in DOMAIN tb
    THEN [telegramBots |-> Remove(tb, agentId), bots |-> StopPollingCall(bs, tb[agentId].bot),
          outcome |-> "stopped", old |-> tb[agentId].bot, new |-> 0]
    ELSE [telegramBots |-> tb, bots |-> bs, outcome |-> "absent", old |-> 0, new |-> 0]

BotIds == 1..Len(bots)

\* the catch block of the start closure, lines 940-947
StartFailedRetryOnceMore(bot, is409) ==
    IF bot.attempt <= RetryLimit /\ is409
    THEN [bot EXCEPT !.startPc = "timer", !.delay = RetryDelay]
    ELSE [bot EXCEPT !.startPc = "gaveUp"]

StartFailed(bot, is409) ==
    IF bot.attempt < RetryLimit /\ is409
    THEN [bot EXCEPT !.startPc = "timer", !.delay = RetryDelay]
    ELSE [bot EXCEPT !.startPc = "gaveUp"]

\* `await bot.deleteWebHook(...)` of the start closure settles (line 937)
DeleteWebHookDone(b, outcome) ==
    /\ bots[b].startPc = "deleteWebHook"
    /\ outcome = "ok" \/ faultsLeft > 0
    /\ bots' = [bots EXCEPT ![b] =
            IF outcome = "ok" THEN [@ EXCEPT !.startPc = "startPolling"]
            ELSE StartFailed(@, outcome = "409")]
    /\ faultsLeft' = IF outcome = "ok" THEN faultsLeft ELSE faultsLeft - 1
    /\ event' = NoEvent
    /\ UNCHANGED <<histVars, agents, chatVars, telegramBots, adminReqs, cleared, regVars, msgVars>>

\* `await bot.startPolling()` of the start closure settles (line 938)
StartPollingDone(b, outcome) ==
    /\ bots[b].startPc = "startPolling"
    /\ outcome = "ok" \/ faultsLeft > 0
    /\ bots' = [bots EXCEPT ![b] =
            IF outcome = "ok" THEN [@ EXCEPT !.startPc = "started", !.polling = TRUE]
            ELSE StartFailed(@, outcome = "409")]
    /\ faultsLeft' = IF outcome = "ok" THEN faultsLeft ELSE faultsLeft - 1
    /\ event' = NoEvent
    /\ UNCHANGED <<histVars, agents, chatVars, telegramBots, adminReqs, cleared, regVars, msgVars>>

\* setTimeout(() => start(attempt + 1), delay) fires (line 945)
RetryTimerFires(b) ==
    /\ bots[b].startPc = "timer"
    /\ bots' = [bots EXCEPT ![b] =
            [@ EXCEPT !.startPc = "deleteWebHook", !.attempt = @ + 1,
                      !.attemptsMade = @ + 1, !.delay = 0]]
    /\ UNCHANGED faultsLeft
    /\ event' = NoEvent
    /\ UNCHANGED <<histVars, agents, chatVars, telegramBots, adminReqs, cleared, regVars, msgVars>>

\* a stopPolling() issued by startTelegramBot or stopTelegramBot settles
StopPollingDone(b) ==
    /\ bots[b].stopping
    /\ bots' = [bots EXCEPT ![b] = [@ EXCEPT !.stopping = FALSE, !.polling = FALSE]]
    /\ UNCHANGED faultsLeft
    /\ event' = NoEvent
    /\ UNCHANGED <<histVars, agents, chatVars, telegramBots, adminReqs, cleared, regVars, msgVars>>

\* the 'polling_error' handler, lines 952-960: on a 409 it issues stopPolling()
PollingError(b, is409) ==
    /\ bots[b].polling
    /\ bots[b].restart = "none"
    /\ ~is409 \/ faultsLeft > 0
    /\ bots' = [bots EXCEPT ![b] =
            IF is409 THEN [@ EXCEPT !.restart = "stopPolling", !.restarts = @ + 1] ELSE @]
    /\ faultsLeft' = IF ~is409 THEN faultsLeft ELSE faultsLeft - 1
    /\ event' = [kind |-> "polling_error", bot |-> b, is409 |-> is409]
    /\ UNCHANGED <<histVars, agents, chatVars, telegramBots, adminReqs, cleared, regVars, msgVars>>

\* the chain's stopPolling() settles: .then(() => bot.deleteWebHook(...)), or .catch
RestartStopDone(b, ok) ==
    /\ bots[b].restart = "stopPolling"
    /\ ok \/ faultsLeft > 0
    /\ bots' = [bots EXCEPT ![b] =
            IF ok THEN [@ EXCEPT !.polling = FALSE, !.restart = "deleteWebHook"]
            ELSE [@ EXCEPT !.restart = "none"]]
    /\ faultsLeft' = IF ok THEN faultsLeft ELSE faultsLeft - 1
    /\ event' = NoEvent
    /\ UNCHANGED <<histVars, agents, chatVars, telegramBots, adminReqs, cleared, regVars, msgVars>>

\* the chain goes on to startPolling whether its deleteWebHook resolved or not
RestartDeleteWebHookDoneThenStart(b, ok) ==
    /\ bots[b].restart = "deleteWebHook"
    /\ ok \/ faultsLeft > 0
    /\ bots' = [bots EXCEPT ![b] = [@ EXCEPT !.restart = "startPolling"]]
    /\ faultsLeft' = IF ok THEN faultsLeft ELSE faultsLeft - 1
    /\ event' = NoEvent
    /\ UNCHANGED <<histVars, agents, chatVars, telegramBots, adminReqs, cleared, regVars, msgVars>>

\* the chain's deleteWebHook settles: .then(() => bot.startPolling()), or .catch
RestartDeleteWebHookDone(b, ok) ==
    /\ bots[b].restart = "deleteWebHook"
    /\ ok \/ faultsLeft > 0
    /\ bots' = [bots EXCEPT ![b] =
            [@ EXCEPT !.restart = IF ok THEN "startPolling" ELSE "none"]]
    /\ faultsLeft' = IF ok THEN faultsLeft ELSE faultsLeft - 1
    /\ event' = NoEvent
    /\ UNCHANGED <<histVars, agents, chatVars, telegramBots, adminReqs, cleared, regVars, msgVars>>

\* the chain's startPolling settles, or .catch
RestartStartPollingDone(b, ok) ==
    /\ bots[b].restart = "startPolling"
    /\ ok \/ faultsLeft > 0
    /\ bots' = [bots EXCEPT ![b] =
            [@ EXCEPT !.restart = "none", !.polling = IF ok THEN TRUE ELSE @]]
    /\ faultsLeft' = IF ok THEN faultsLeft ELSE faultsLeft - 1
    /\ event' = NoEvent
    /\ UNCHANGED <<histVars, agents, chatVars, telegramBots, adminReqs, cleared, regVars, msgVars>>

-----------------------------------------------------------------------------
(* Agent update, POST /admin/:id, index.js:817-851 *)

\* an uploaded file is one of: no text (skipped), plain text, a .json file that
\* parses, a .json file that does not
FileKinds == {"empty", "text", "json", "badjson"}

\* A request body is a record; a field it does not carry is undefined.
Has(body, field) == field \in DOMAIN body

\* `files = []` of the destructuring
Files(body) == IF Has(body, "files") THEN body.files ELSE <<>>

\* the request bodies of the supervisor's specification: any credential or none,
\* with or without a document
AdminBodies ==
    LET fileLists == { <<>>, <<"text">>, <<"badjson">> }
    IN  { [files |-> f] : f \in fileLists }
        \cup { [telegramToken |-> t, files |-> f] : t \in {""} \cup Tokens, f \in fileLists }

\* requests that leave the credential as it is: the settings form submitted again,
\* with or without documents
SameTokenBodies ==
    LET fileLists == { <<>>, <<"empty", "json">>, <<"text", "badjson">> }
    IN  { [files |-> f] : f \in fileLists }
        \cup { [telegramToken |-> "t1", files |-> f] : f \in fileLists }

\* the update written as a copy of every field the body carries that the record has
ApplyBodyAssignAll(agent, body) ==
    [agent EXCEPT
        !.name = IF Has(body, "name") /\ Trim(body.name) # <<>> THEN Trim(body.name) ELSE @,
        !.instruction = IF Has(body, "instruction") THEN body.instruction ELSE @,
        !.temperature = IF Has(body, "temperature") /\ ~isNaN(body.temperature) THEN body.temperature ELSE @,
        !.topP = IF Has(body, "topP") /\ ~isNaN(body.topP) THEN body.topP ELSE @,
        !.topK = IF Has(body, "topK") /\ ~isNaN(body.topK) THEN body.topK ELSE @,
        !.collection = IF Has(body, "collection") THEN body.collection ELSE @,
        !.telegramToken = IF Has(body, "telegramToken") THEN body.telegramToken ELSE @]

\* lines 822-827: the fields the body carries overwrite the agent's
ApplyBody(agent, body) ==
    [agent EXCEPT
        !.name = IF Has(body, "name") /\ Trim(body.name) # <<>> THEN Trim(body.name) ELSE @,
        !.instruction = IF Has(body, "instruction") THEN body.instruction ELSE @,
        !.temperature = IF Has(body, "temperature") /\ ~isNaN(body.temperature) THEN body.temperature ELSE @,
        !.topP = IF Has(body, "topP") /\ ~isNaN(body.topP) THEN body.topP ELSE @,
        !.topK = IF Has(body, "topK") /\ ~isNaN(body.topK) THEN body.topK ELSE @,
        !.telegramToken = IF Has(body, "telegramToken") THEN body.telegramToken ELSE @]

\* `if (!f || !f.text) continue`: the index of the next file the loop looks at
RECURSIVE NextFile(_, _)
NextFile(files, i) ==
    IF i <= Len(files) /\ files[i] = "empty" THEN NextFile(files, i + 1) ELSE i

\* line 849: if (agent.telegramToken) startTelegramBot(agent); else stopTelegramBot(agent.id)
Supervise(tb, bs, agent) ==
    IF agent.telegramToken # ""
    THEN [call |-> "start"] @@ startTelegramBot(tb, bs, agent)
    ELSE [call |-> "stop"] @@ stopTelegramBot(tb, bs, agent.id)

\* The documents the handler ingests, in order (lines 828-847): the files when
\* `files` is an array, else the one 'Document' made of `text` when it is not empty
\* (a body whose `files` is null carries the field filesNull instead of files)
IngestList(body) ==
    IF Has(body, "filesNull")
    THEN IF Has(body, "text") /\ body.text # <<>> THEN <<"text">> ELSE <<>>
    ELSE Files(body)

\* Math.floor(Math.random() * 1e6)  (index.js:142)
Randoms == {0, 1}

\* the point one successful ingestDocument upserts (index.js:141-143): its id is
\* Date.now() + Math.floor(Math.random() * 1e6)
Point(collection, files, i, id) ==
    [collection |-> collection, kind |-> files[i], idx |-> i, id |-> id]

\* qdrant.upsert: the point takes the place of the point of the collection that has
\* its id, if there is one, and is added otherwise
Upsert(store, p) ==
    IF \E j \in DOMAIN store : store[j].collection = p.collection /\ store[j].id = p.id
    THEN [j \in DOMAIN store |->
            IF store[j].collection = p.collection /\ store[j].id = p.id THEN p ELSE store[j]]
    ELSE Append(store, p)

\* The file loop from file i on, lines 829-850, up to the next await or the response.
\* `now` is the registry the handler sees; from/to are the agent's telegramToken
\* before and after line 827 of this request; h holds what the request started
\* from (its body, the agent's record before and after lines 822-827, the size of
\* the store), for the response's event.
AdminContinue(slot, id, files, i0, from, to, now, h) ==
    LET i == NextFile(files, i0)
        done(status, saved, r) ==
            [kind |-> "admin", agent |-> id, status |-> status, from |-> from,
             to |-> to, saved |-> saved, call |-> r.call,
             outcome |-> r.outcome, old |-> r.old, new |-> r.new,
             files |-> files, failedAt |-> IF status = 200 THEN 0 ELSE i,
             h |-> h]
    IN  IF i > Len(files)
        THEN \* lines 848-850: saveAgents(), start or stop, { status: 'ok' }
             LET r == Supervise(telegramBots, bots, now[id])
             IN  /\ Len(r.bots) <= MaxBots
                 /\ savedAgents' = now
                 /\ disk' = saveAgents(disk, now)
                 /\ telegramBots' = r.telegramBots
                 /\ bots' = r.bots
                 /\ cleared' = IF r.call = "stop" THEN cleared \cup {id} ELSE cleared \ {id}
                 /\ adminReqs' = [adminReqs EXCEPT ![slot] = Idle]
                 /\ UNCHANGED faultsLeft
                 /\ event' = done(200, TRUE, r)
        ELSE IF files[i] = "badjson"
        THEN \* line 838: 400, nothing after it runs
             /\ adminReqs' = [adminReqs EXCEPT ![slot] = Idle]
             /\ event' = done(400, FALSE, [call |-> "none", outcome |-> "none", old |-> 0, new |-> 0])
             /\ UNCHANGED <<telegramBots, bots, faultsLeft, cleared, savedAgents, disk>>
        ELSE \* line 841 (or 845): await ingestDocument(...)
             /\ adminReqs' = [adminReqs EXCEPT ![slot] =
                    [pc |-> "ingest", agent |-> id, files |-> files, i |-> i,
                     from |-> from, to |-> to, h |-> h]]
             /\ event' = NoEvent
             /\ UNCHANGED <<telegramBots, bots, faultsLeft, cleared, savedAgents, disk>>

\* lines 818-819: unknown agent
AdminPostNotFound(id) ==
    /\ id \notin DOMAIN agents
    /\ event' = [kind |-> "admin", agent |-> id, status |-> 404, from |-> "", to |-> "",
                 saved |-> FALSE, call |-> "none", outcome |-> "none", old |-> 0, new |-> 0]
    /\ UNCHANGED <<histVars, agents, chatVars, botVars, regVars, msgVars>>

\* lines 818-841: the fields are applied, then the file loop runs to its first await
AdminPost(slot, id, body) ==
    /\ adminReqs[slot] = Idle
    /\ id \in DOMAIN agents
    /\ agents' = [agents EXCEPT ![id] = ApplyBody(@, body)]
    /\ AdminContinue(slot, id, IngestList(body), 1, agents[id].telegramToken,
                     agents'[id].telegramToken, agents',
                     [body |-> body, before |-> agents[id], after |-> agents'[id],
                      base |-> Len(points)])
    /\ UNCHANGED <<histVars, chatVars, points, clock, createReqs, docReqs, proc, msgVars>>

\* What the handler does once ingestDocument has settled (lines 841-842, 845-846):
\* true goes on with the loop, false answers 500
AfterIngest(ok) == IF ok THEN "continue" ELSE "fail"

\* ingestDocument settles: it resolves true once the point is upserted, false when
\* ensureCollection, the embedding or the upsert threw (index.js:133-150)
AdminIngestDone(slot, ok, rnd) ==
    /\ adminReqs[slot].pc = "ingest"
    /\ LET r == adminReqs[slot]
           p == Point(agents[r.agent].collection, r.files, r.i, clock + rnd)
       IN  /\ IF ok
              THEN /\ Len(Upsert(points, p)) <= MaxPoints
                   /\ points' = Upsert(points, p)
              ELSE UNCHANGED points
           /\ IF AfterIngest(ok) = "continue"
              THEN AdminContinue(slot, r.agent, r.files, r.i + 1, r.from, r.to, agents, r.h)
              ELSE /\ adminReqs' = [adminReqs EXCEPT ![slot] = Idle]
                   /\ event' = [kind |-> "admin", agent |-> r.agent, status |-> 500,
                                from |-> r.from, to |-> r.to, saved |-> FALSE, call |-> "none",
                                outcome |-> "none", old |-> 0, new |-> 0,
                                files |-> r.files, failedAt |-> r.i, h |-> r.h]
                   /\ UNCHANGED <<telegramBots, bots, faultsLeft, cleared, savedAgents, disk>>
    /\ UNCHANGED <<histVars, agents, chatVars, clock, createReqs, docReqs, proc, msgVars>>

-----------------------------------------------------------------------------
(* The supervisor's specification *)

\* line 989: Object.values(agents).forEach(startTelegramBot), for the one agent of
\* agents.json
Startup(agent) ==
    startTelegramBot([a \in {} |-> <<>>], <<>>, agent)

BotInit ==
    /\ HistInit
    /\ \E t \in {"", "t1"} :
        /\ agents = [a \in {"a1"} |-> NewAgent(a, <<>>, t)]
        /\ telegramBots = Startup(agents["a1"]).telegramBots
        /\ bots = Startup(agents["a1"]).bots
    /\ chatReqs = [s \in ChatSlots |-> Idle]
    /\ chatCount = 0
    /\ adminReqs = [s \in AdminSlots |-> Idle]
    /\ faultsLeft = MaxFaults
    /\ cleared = {}
    /\ QuietInit
    /\ event = NoEvent

StartOutcomes == {"ok", "409", "error"}

BotNext ==
    \/ \E id \in AgentIds : AdminPostNotFound(id)
    \/ \E slot \in AdminSlots, id \in AgentIds, body \in AdminBodies : AdminPost(slot, id, body)
    \/ \E slot \in AdminSlots, ok \in BOOLEAN : AdminIngestDone(slot, ok, 0)
    \/ \E b \in BotIds, o \in StartOutcomes : DeleteWebHookDone(b, o)
    \/ \E b \in BotIds, o \in StartOutcomes : StartPollingDone(b, o)
    \/ \E b \in BotIds : RetryTimerFires(b)
    \/ \E b \in BotIds : StopPollingDone(b)
    \/ \E b \in BotIds, is409 \in BOOLEAN : PollingError(b, is409)
    \/ \E b \in BotIds, ok \in BOOLEAN : RestartStopDone(b, ok)
    \/ \E b \in BotIds, ok \in BOOLEAN : RestartDeleteWebHookDone(b, ok)
    \/ \E b \in BotIds, ok \in BOOLEAN : RestartStartPollingDone(b, ok)

Spec == BotInit /\ [][BotNext]_vars

-----------------------------------------------------------------------------
(* One connection followed through a long run of conflicts: the agent keeps its
   credential, the environment may fail or conflict MaxConflicts times *)

LifecycleInit ==
    /\ HistInit
    /\ agents = [a \in {"a1"} |-> NewAgent(a, <<>>, "t1")]
    /\ telegramBots = Startup(agents["a1"]).telegramBots
    /\ bots = Startup(agents["a1"]).bots
    /\ chatReqs = [s \in ChatSlots |-> Idle]
    /\ chatCount = 0
    /\ adminReqs = [s \in AdminSlots |-> Idle]
    /\ faultsLeft = MaxConflicts
    /\ cleared = {}
    /\ QuietInit
    /\ event = NoEvent

LifecycleNext ==
    \/ \E slot \in AdminSlots, id \in AgentIds, body \in SameTokenBodies : AdminPost(slot, id, body)
    \/ \E slot \in AdminSlots, ok \in BOOLEAN : AdminIngestDone(slot, ok, 0)
    \/ \E b \in BotIds, o \in StartOutcomes : DeleteWebHookDone(b, o)
    \/ \E b \in BotIds, o \in StartOutcomes : StartPollingDone(b, o)
    \/ \E b \in BotIds : RetryTimerFires(b)
    \/ \E b \in BotIds, is409 \in BOOLEAN : PollingError(b, is409)
    \/ \E b \in BotIds, ok \in BOOLEAN : RestartStopDone(b, ok)
    \/ \E b \in BotIds, ok \in BOOLEAN : RestartDeleteWebHookDone(b, ok)
    \/ \E b \in BotIds, ok \in BOOLEAN : RestartStartPollingDone(b, ok)

SpecLifecycle == LifecycleInit /\ [][LifecycleNext]_vars

-----------------------------------------------------------------------------
(* The supervisor's claims *)

PollingBots(a) == { b \in BotIds : bots[b].agent = a /\ bots[b].polling }

\* C3: at no time are two bot instances created for the same agent id both polling.
C3_OnePollingLoopPerAgent ==
    \A a \in AgentIds : Cardinality(PollingBots(a)) <= 1

\* C4: when startTelegramBot replaces a connection whose token differs, the old
\* connection's stop has completed by the time the new connection's handshake is
\* issued (the replacing call issues the new instance's deleteWebHook itself).
C4_StopCompletesBeforeHandshake ==
    (event.kind = "admin" /\ event.call = "start" /\ event.outcome = "replaced")
        => ~bots[event.old].stopping

\* C5: a startTelegramBot call for an agent whose supervisor entry already holds the
\* agent's token changes nothing: no instance is created, no handshake is issued, no
\* instance changes, telegramBots is unchanged.
C5_SameTokenStartIsNoOp ==
    [][ \A a \in DOMAIN telegramBots :
            ( /\ event'.kind = "admin" /\ event'.agent = a /\ event'.call = "start"
              /\ telegramBots[a].token = agents'[a].telegramToken )
            => UNCHANGED <<telegramBots, bots>> ]_vars

\* a same-token start was just made for an agent whose connection is polling
C5_Witness ==
    /\ event.kind = "admin" /\ event.call = "start" /\ event.outcome = "same"
    /\ event.agent \in DOMAIN telegramBots
    /\ bots[telegramBots[event.agent].bot].polling
    /\ bots[telegramBots[event.agent].bot].token = agents[event.agent].telegramToken

\* C6: every POST /admin/:id that changes the agent's telegramToken from non-empty to
\* empty has stopped the connection when it responds, and every one that changes it
\* from empty to non-empty has started one, whatever else the request carries.
C6_TokenChangeReachesSupervisor ==
    (event.kind = "admin" /\ event.status # 404 /\ event.from # event.to) =>
        /\ (event.to = "") => event.agent \notin DOMAIN telegramBots
        /\ (event.from = "") => event.agent \in DOMAIN telegramBots

\* C7: while an agent's connection is stopped because its credential was cleared, and
\* until a later start with a non-empty credential, no polling loop of that agent
\* goes from not polling to polling.
C7_NoPollingAfterClear ==
    [][ \A b \in BotIds :
            ( /\ bots[b].agent \in cleared /\ bots[b].agent \in cleared'
              /\ ~bots[b].polling )
            => ~bots'[b].polling ]_vars

\* C8: the start closure of a connection makes at most 1 + 5 attempts, every retry
\* timer is set to the same 5000 ms, and once the retries are used up the closure has
\* ended without a pending timer or call.
C8_StartRetriesBounded ==
    \A b \in BotIds :
        /\ bots[b].attemptsMade <= 6
        /\ bots[b].attemptsMade = bots[b].attempt + 1
        /\ bots[b].startPc = "timer" => (bots[b].delay = 5000 /\ bots[b].attemptsMade <= 5)
        /\ bots[b].startPc # "timer" => bots[b].delay = 0

\* every one of the six attempts failed and the closure gave up, with conflicts to spare
C8_Witness ==
    \E b \in BotIds :
        /\ bots[b].attemptsMade = 6
        /\ bots[b].startPc = "gaveUp"
        /\ ~bots[b].polling
        /\ bots[b].restarts = 0
        /\ faultsLeft > 0

\* C9: conflicts signalled while a connection is polling lead to a bounded number of
\* stop/clear/restart cycles (no more than the 5 the start closure allows itself).
C9_ConflictRestartsBounded ==
    \A b \in BotIds : bots[b].restarts <= 5

-----------------------------------------------------------------------------
(* The bot's message handler, bot.on('message'), index.js:962-978 *)

\* cap on the number of inbound bot messages of a run
MaxMsgs == 2
\* how many bot.sendMessage calls the environment lets fail in a run
MaxSendFaults == 2

\* 'Failed to generate answer'  (index.js:975-976)
TgFallback ==
    <<"F","a","i","l","e","d"," ","t","o"," ","g","e","n","e","r","a","t","e"," ",
      "a","n","s","w","e","r">>

\* inbound updates: a chat id, and a text unless the update is a photo, a sticker...
TgTexts == { <<"h", "i">>, <<" ", "q", " ">>, <<" ">> }
TgUpdates == { [chat |-> c] : c \in ChatIds } \cup { [chat |-> c, text |-> t] : c \in ChatIds, t \in TgTexts }

\* `history` of line 967 is the bucket's array object itself when the bucket exists
TgHistoryRef(agentId, chatId) ==
    IF agentId \in DOMAIN telegramHistory /\ chatId \in DOMAIN telegramHistory[agentId]
    THEN [live |-> TRUE, snap |-> <<>>]
    ELSE [live |-> FALSE, snap |-> <<>>]

TgDeref(ref, agentId, chatId) ==
    IF ref.live THEN telegramHistory[agentId][chatId] ELSE ref.snap

\* what one addTelegramMessage on `bucket` does to the references other handlers
\* hold: the push shows through them, the slice leaves them the replaced array
TgRefsAfterPush(reqs, agentId, chatId, bucket, role, text) ==
    [s \in DOMAIN reqs |->
        IF reqs[s].pc = "searchDocs" /\ reqs[s].agent = agentId /\ reqs[s].chat = chatId
           /\ reqs[s].history.live /\ Len(bucket) + 1 > HistoryWindow
        THEN [reqs[s] EXCEPT !.history = [live |-> FALSE, snap |-> Append(bucket, Turn(role, text))]]
        ELSE reqs[s]]

\* The turns the handler records once askLLM has settled (lines 970-971)
TurnsOfExchangeUserOnly(text, answer) == << Turn("user", text) >>
TurnsOfExchange(text, answer) == << Turn("user", text), Turn("bot", answer) >>

\* addTelegramMessage applied to each turn of a list in order, with the saveHistory
\* writes, the append log and the references of the suspended handlers
RECURSIVE AppendTurns(_, _, _, _)
AppendTurns(st, agentId, chatId, turns) ==
    IF turns = <<>> THEN st
    ELSE LET t == Head(turns)
             bucket == IF agentId \in DOMAIN st.table
                       THEN GetOrEmpty(st.table[agentId], chatId) ELSE <<>>
         IN  AppendTurns(
                [table |-> addTelegramMessage(st.table, agentId, chatId, t.role, t.text),
                 saves |-> st.saves + 1,
                 disk |-> saveHistory(st.disk, addTelegramMessage(st.table, agentId, chatId, t.role, t.text)),
                 log |-> LogAppend(st.log, <<agentId, chatId>>, t.role, t.text),
                 reqs |-> TgRefsAfterPush(st.reqs, agentId, chatId, bucket, t.role, t.text)],
                agentId, chatId, Tail(turns))

\* the event of a handler that has ended
MsgDone(r, delivered, escaped) ==
    [kind |-> "message", agent |-> r.agent, chat |-> r.chat, text |-> r.text, n |-> r.n,
     read |-> r.read, failed |-> r.failed, appended |-> r.appended,
     delivered |-> delivered, escaped |-> escaped]

\* msg.text?.trim() of line 964; undefined, like '', fails the test of line 965
TgText(msg) == IF Has(msg, "text") THEN Trim(msg.text) ELSE <<>>

\* lines 963-965: an update without text, or with blank text, is dropped
BotMessageIgnored(b, msg) ==
    /\ bots[b].polling
    /\ TgText(msg) = <<>>
    /\ event' = [kind |-> "ignored", agent |-> bots[b].agent, chat |-> msg.chat]
    /\ UNCHANGED <<histVars, agents, chatVars, botVars, regVars, msgVars>>

\* lines 963-968, up to `await searchDocs(...)`.  The handler closes over the agent
\* record startTelegramBot was called with, which is the registry's own object.
BotMessage(slot, b, msg) ==
    /\ bots[b].polling
    /\ msgReqs[slot] = Idle
    /\ TgText(msg) # <<>>
    /\ LET agentId == bots[b].agent
           ref == TgHistoryRef(agentId, msg.chat)
       IN  msgReqs' = [msgReqs EXCEPT ![slot] =
                [pc |-> "searchDocs", bot |-> b, agent |-> agentId, chat |-> msg.chat,
                 text |-> TgText(msg), n |-> msgCount + 1, history |-> ref,
                 read |-> TgDeref(ref, agentId, msg.chat),
                 failed |-> {}, appended |-> <<>>]]
    /\ msgCount' = msgCount + 1
    /\ event' = NoEvent
    /\ UNCHANGED <<histVars, agents, chatVars, botVars, regVars, tgSent>>

\* searchDocs settles; line 969 up to `await askLLM(...)`: the messages are built now
MsgSearchDocsDone(slot, outcome) ==
    /\ msgReqs[slot].pc = "searchDocs"
    /\ LET r == msgReqs[slot]
           context == searchDocs(outcome)
           history == Append(TgDeref(r.history, r.agent, r.chat), Turn("user", r.text))
       IN  msgReqs' = [msgReqs EXCEPT ![slot] =
                [pc |-> "askLLM", bot |-> r.bot, agent |-> r.agent, chat |-> r.chat,
                 text |-> r.text, n |-> r.n, read |-> r.read,
                 failed |-> IF outcome.ok THEN r.failed ELSE r.failed \cup {"retrieval"},
                 appended |-> r.appended,
                 messages |-> LLMMessages(agents[r.agent], context, r.text, history)]]
    /\ event' = NoEvent
    /\ UNCHANGED <<histVars, agents, chatVars, botVars, regVars, tgSent, msgCount>>

\* askLLM settles; lines 970-972 up to `await bot.sendMessage(chatId, answer)`
MsgAskLLMDone(slot, outcome) ==
    /\ msgReqs[slot].pc = "askLLM"
    /\ LET r == msgReqs[slot]
           answer == askLLM(outcome)
           turns == TurnsOfExchange(r.text, answer)
           st == AppendTurns([table |-> telegramHistory, saves |-> saveHistoryCalls, disk |-> disk,
                              log |-> tgAppended, reqs |-> msgReqs], r.agent, r.chat, turns)
       IN  /\ telegramHistory' = st.table
           /\ saveHistoryCalls' = st.saves
           /\ disk' = st.disk
           /\ tgAppended' = st.log
           /\ msgReqs' = [st.reqs EXCEPT ![slot] =
                [pc |-> "send", bot |-> r.bot, agent |-> r.agent, chat |-> r.chat,
                 text |-> r.text, n |-> r.n, read |-> r.read, reply |-> answer,
                 failed |-> IF outcome.kind = "ok" THEN r.failed ELSE r.failed \cup {"generation"},
                 appended |-> r.appended \o turns]]
    /\ event' = NoEvent
    /\ UNCHANGED <<dashboardHistory, dashAppended, agents, chatVars, botVars,
                   points, savedAgents, clock, createReqs, docReqs, proc, tgSent, msgCount>>

\* bot.sendMessage(chatId, answer) settles (line 972).  Telegram refuses an empty
\* text, which is a rejection like any other.  A rejection enters the catch block:
\* lines 975-976 up to `await bot.sendMessage(chatId, 'Failed to generate answer')`
MsgSendDone(slot, ok) ==
    /\ msgReqs[slot].pc = "send"
    /\ LET r == msgReqs[slot]
       IN  IF ok
           THEN /\ r.reply # <<>>
                /\ tgSent' = Append(tgSent, [chat |-> r.chat, text |-> r.reply])
                /\ msgReqs' = [msgReqs EXCEPT ![slot] = Idle]
                /\ event' = MsgDone(r, TRUE, FALSE)
                /\ UNCHANGED <<histVars, faultsLeft, disk>>
           ELSE LET turns == << Turn("bot", TgFallback) >>
                    st == AppendTurns([table |-> telegramHistory, saves |-> saveHistoryCalls, disk |-> disk,
                                       log |-> tgAppended, reqs |-> msgReqs], r.agent, r.chat, turns)
                IN  /\ r.reply = <<>> \/ faultsLeft > 0
                    /\ faultsLeft' = IF r.reply = <<>> THEN faultsLeft ELSE faultsLeft - 1
                    /\ telegramHistory' = st.table
                    /\ saveHistoryCalls' = st.saves
                    /\ disk' = st.disk
                    /\ tgAppended' = st.log
                    /\ msgReqs' = [st.reqs EXCEPT ![slot] =
                            [r EXCEPT !.pc = "sendFallback", !.reply = TgFallback,
                                      !.failed = @ \cup {"send"}, !.appended = @ \o turns]]
                    /\ tgSent' = tgSent
                    /\ event' = NoEvent
                    /\ UNCHANGED <<dashboardHistory, dashAppended>>
    /\ UNCHANGED <<agents, chatVars, telegramBots, bots, adminReqs, cleared,
                   points, savedAgents, clock, createReqs, docReqs, proc, msgCount>>

\* the send of the catch block settles (line 976); its rejection is caught by
\* nothing and leaves the handler as an unhandled rejection
MsgFallbackSendDone(slot, ok) ==
    /\ msgReqs[slot].pc = "sendFallback"
    /\ LET r == msgReqs[slot]
       IN  IF ok
           THEN /\ tgSent' = Append(tgSent, [chat |-> r.chat, text |-> r.reply])
                /\ event' = MsgDone(r, TRUE, FALSE)
                /\ UNCHANGED faultsLeft
           ELSE /\ faultsLeft > 0
                /\ faultsLeft' = faultsLeft - 1
                /\ tgSent' = tgSent
                /\ event' = MsgDone([r EXCEPT !.failed = @ \cup {"fallbackSend"}], FALSE, TRUE)
    /\ msgReqs' = [msgReqs EXCEPT ![slot] = Idle]
    /\ UNCHANGED <<histVars, agents, chatVars, telegramBots, bots, adminReqs, cleared, regVars, msgCount>>

\* an agent whose connection is up, as the start closure leaves it after a
\* successful handshake
PollingBot(agentId, token) == [NewBot(agentId, token) EXCEPT !.polling = TRUE, !.startPc = "started"]

MsgInit ==
    /\ HistInit
    /\ agents = [a \in {"a1"} |-> NewAgent(a, <<>>, "t1")]
    /\ telegramBots = [a \in {"a1"} |-> [bot |-> 1, token |-> "t1"]]
    /\ bots = << PollingBot("a1", "t1") >>
    /\ chatReqs = [s \in ChatSlots |-> Idle]
    /\ chatCount = 0
    /\ adminReqs = [s \in AdminSlots |-> Idle]
    /\ faultsLeft = MaxSendFaults
    /\ cleared = {}
    /\ QuietInit
    /\ event = NoEvent

\* the outcomes of the generation backend the handler's specifications draw from
MsgLLMOutcomes ==
    {[kind |-> "error", content |-> <<>>], [kind |-> "ok", content |-> <<"o","k">>],
     [kind |-> "ok", content |-> <<" ">>]}

MsgNext ==
    \/ \E b \in BotIds, msg \in TgUpdates : BotMessageIgnored(b, msg)
    \/ \E slot \in MsgSlots, b \in BotIds, msg \in TgUpdates :
            msgCount < MaxMsgs /\ BotMessage(slot, b, msg)
    \/ \E slot \in MsgSlots, o \in SearchOutcomes : MsgSearchDocsDone(slot, o)
    \/ \E slot \in MsgSlots, o \in MsgLLMOutcomes : MsgAskLLMDone(slot, o)
    \/ \E slot \in MsgSlots, ok \in BOOLEAN : MsgSendDone(slot, ok)
    \/ \E slot \in MsgSlots, ok \in BOOLEAN : MsgFallbackSendDone(slot, ok)

SpecBotMsg == MsgInit /\ [][MsgNext]_vars

-----------------------------------------------------------------------------
(* Messages sent one after the other on one chat: each is handled to its end
   before the next arrives *)

\* number of messages of the sequence
MaxSeqMsgs == 7

\* the text of the n-th message of the sequence
SeqText(n) == <<"m", ToString(n)>>

SeqLLMOutcomes == {[kind |-> "error", content |-> <<>>], [kind |-> "ok", content |-> <<"o","k">>]}

SeqNext ==
    \/ /\ msgCount < MaxSeqMsgs
       /\ \A s \in MsgSlots : msgReqs[s] = Idle
       /\ BotMessage(1, 1, [chat |-> "c1", text |-> SeqText(msgCount + 1)])
    \/ \E o \in SearchOutcomes : MsgSearchDocsDone(1, o)
    \/ \E o \in SeqLLMOutcomes : MsgAskLLMDone(1, o)
    \/ \E ok \in BOOLEAN : MsgSendDone(1, ok)
    \/ \E ok \in BOOLEAN : MsgFallbackSendDone(1, ok)

SpecBotSeq == MsgInit /\ [][SeqNext]_vars

-----------------------------------------------------------------------------
(* Claims about the bot's message handler *)

Range(seq) == { seq[i] : i \in DOMAIN seq }

\* C11: for every inbound bot message with non-empty text, a failure at any step of
\* the handler (retrieval, generation, history append, sending the reply) still
\* ends with a reply delivered to the same chat id, and that reply is among the bot
\* turns the handler recorded for the chat.
C11_FailureStillRepliesAndRecords ==
    (event.kind = "message" /\ event.failed # {}) =>
        /\ event.delivered
        /\ ~event.escaped
        /\ tgSent # <<>>
        /\ tgSent[Len(tgSent)].chat = event.chat
        /\ Turn("bot", tgSent[Len(tgSent)].text) \in Range(event.appended)

\* C12: every handled bot message appends to its bucket exactly one user turn
\* followed by exactly one bot turn, on the success path and on every failure path.
C12_OneUserTurnThenOneBotTurn ==
    event.kind = "message" =>
        /\ Len(event.appended) = 2
        /\ event.appended[1] = Turn("user", event.text)
        /\ event.appended[2].role = "bot"

\* the history the handler of the n-th message of the sequence has just read
SeqReads(n) ==
    { msgReqs[s].read : s \in { x \in MsgSlots : msgReqs[x].pc = "searchDocs" /\ msgReqs[x].n = n } }

\* C13 as stated: after 6 sequential messages on one chat, the history read for the
\* 7th message contains messages 2 through 6 and no longer message 1.
C13_SeventhReadHoldsMessages2To6 ==
    \A read \in SeqReads(7) :
        /\ \A k \in 2..6 : Turn("user", SeqText(k)) \in Range(read)
        /\ Turn("user", SeqText(1)) \notin Range(read)

\* C13 as amended: after 6 sequential messages on one chat, the history read for the
\* 7th message is the five most recent turns recorded, oldest first, every message
\* having recorded its user turn and its bot turn(s): the user turn of message 6 is
\* retained and the user turns of messages 1 through 4 have been dropped.
C13_SeventhReadIsLastFiveTurns ==
    \A read \in SeqReads(7) :
        LET log == tgAppended[<<"a1", "c1">>]
        IN  /\ Len(read) = 5
            /\ \A i \in 1..5 : read[i] = log[Len(log) - 5 + i]
            /\ Turn("user", SeqText(6)) \in Range(read)
            /\ \A k \in 1..4 : Turn("user", SeqText(k)) \notin Range(read)

C13_Witness ==
    \E read \in SeqReads(7) :
        /\ read[1].role = "bot"
        /\ read[2] = Turn("user", SeqText(5))
        /\ read[4] = Turn("user", SeqText(6))
        /\ read[5].role = "bot"

-----------------------------------------------------------------------------
(* Agent creation, POST /agents, index.js:787-801 *)

\* last value of the clock in a run
MaxClock == 2

\* how qdrant.createCollection can settle: the collection is created, it exists
\* already, the store is unreachable, the API key is refused
EnsureOutcomes == {"created", "exists", "network", "auth"}

\* ensureCollection (index.js:125-131): the catch block is empty, so the promise
\* resolves however createCollection settled
ensureCollection(outcome) == "resolved"

\* the bodies of POST /agents: a name or none, a credential or none
CreateBodies ==
    { [telegramToken |-> "t1"] } \cup { [x \in {} |-> <<>>] }

\* Date.now() moves on
Tick ==
    /\ clock < MaxClock
    /\ clock' = clock + 1
    /\ event' = NoEvent
    /\ UNCHANGED <<histVars, agents, chatVars, botVars, points, savedAgents, disk, createReqs, docReqs, proc, msgVars>>

\* lines 788-793, up to `await ensureCollection(collection)`
CreatePost(slot, body) ==
    /\ createReqs[slot] = Idle
    /\ LET id == NewId(clock)
           name == IF Has(body, "name") THEN body.name ELSE <<>>
           token == IF Has(body, "telegramToken") THEN body.telegramToken ELSE ""
       IN  /\ agents' = Put(agents, id, NewAgent(id, name, token))
           /\ createReqs' = [createReqs EXCEPT ![slot] = [pc |-> "ensureCollection", id |-> id]]
    /\ event' = NoEvent
    /\ UNCHANGED <<histVars, chatVars, botVars, points, savedAgents, disk, clock, docReqs, proc, msgVars>>

\* ensureCollection settles; lines 794-800
CreateEnsureDone(slot, outcome) ==
    /\ createReqs[slot].pc = "ensureCollection"
    /\ LET id == createReqs[slot].id
       IN  IF ensureCollection(outcome) = "resolved"
           THEN LET r == IF agents[id].telegramToken # ""
                         THEN [call |-> "start"] @@ startTelegramBot(telegramBots, bots, agents[id])
                         ELSE [call |-> "none", telegramBots |-> telegramBots, bots |-> bots]
                IN  /\ Len(r.bots) <= MaxBots
                    /\ savedAgents' = agents
                    /\ disk' = saveAgents(disk, agents)
                    /\ telegramBots' = r.telegramBots
                    /\ bots' = r.bots
                    /\ cleared' = IF r.call = "start" THEN cleared \ {id} ELSE cleared
                    /\ event' = [kind |-> "create", agent |-> id, status |-> 200,
                                 ensure |-> outcome, saved |-> TRUE]
           ELSE /\ event' = [kind |-> "create", agent |-> id, status |-> 500,
                             ensure |-> outcome, saved |-> FALSE]
                /\ UNCHANGED <<savedAgents, disk, telegramBots, bots, cleared>>
    /\ createReqs' = [createReqs EXCEPT ![slot] = Idle]
    /\ UNCHANGED <<histVars, agents, chatVars, adminReqs, faultsLeft, points, clock, docReqs, proc, msgVars>>

\* the ids POST /agents can allocate in a run
RegistryIds == { NewId(t) : t \in 1..MaxClock }

\* the bodies of POST /admin/:id of the registry's specification: the credential
\* cleared, alone or with a document that does not parse, or a foreign field
RegistryBodies ==
    { [telegramToken |-> "", files |-> f] : f \in { <<>>, <<"badjson">> } }
    \cup { [collection |-> "agent_a1"] }

RegistryInit ==
    /\ HistInit
    /\ agents = [a \in {} |-> <<>>]      \* agents.json absent: {}
    /\ telegramBots = [a \in {} |-> <<>>]
    /\ bots = <<>>
    /\ chatReqs = [s \in ChatSlots |-> Idle]
    /\ chatCount = 0
    /\ adminReqs = [s \in AdminSlots |-> Idle]
    /\ faultsLeft = 0
    /\ cleared = {}
    /\ QuietInit
    /\ event = NoEvent

RegistryNext ==
    \/ Tick
    \/ \E slot \in CreateSlots, body \in CreateBodies : CreatePost(slot, body)
    \/ \E slot \in CreateSlots, o \in EnsureOutcomes : CreateEnsureDone(slot, o)
    \/ \E id \in RegistryIds : AdminPostNotFound(id)
    \/ \E slot \in AdminSlots, id \in RegistryIds, body \in RegistryBodies : AdminPost(slot, id, body)

SpecRegistry == RegistryInit /\ [][RegistryNext]_vars

-----------------------------------------------------------------------------
(* Claims about the registry *)

\* C14: in every reachable state of the registry each agent's collection is the
\* name derived from its own id, no two agents share a collection, and no step
\* changes the id or the collection of an agent that exists.
C14_CollectionDerivedFromId ==
    /\ [](/\ \A id \in DOMAIN agents :
                agents[id].id = id /\ agents[id].collection = "agent_" \o id
          /\ \A x, y \in DOMAIN agents : x # y => agents[x].collection # agents[y].collection)
    /\ [][\A id \in DOMAIN agents \cap DOMAIN agents' :
                agents'[id].id = agents[id].id /\ agents'[id].collection = agents[id].collection]_vars

C14_Witness ==
    /\ Cardinality(DOMAIN agents) = 2
    /\ event.kind = "admin" /\ event.status = 200
    /\ Has(event.h.body, "collection")
    /\ event.h.body.collection # agents[event.agent].collection

\* C15: the id POST /agents generates is not the key of any agent already in the
\* registry, also when two requests are handled at the same clock value.
C15_CreateAllocatesFreshId ==
    [][\A s \in CreateSlots :
            (createReqs[s] = Idle /\ createReqs'[s] # Idle) => createReqs'[s].id \notin DOMAIN agents]_vars

\* C17: every POST /agents or POST /admin/:id request that changed an agent record
\* has had the full table written by saveAgents when it responds, on every exit
\* path: the table last written is the table in memory.
C17_SavedBeforeResponse ==
    /\ event.kind = "create" => savedAgents = agents
    /\ (event.kind = "admin" /\ event.status # 404 /\ event.h.after # event.h.before)
            => savedAgents = agents

\* C20: ensureCollection propagates a network or auth failure of the backend, so
\* that agent creation reports failure when the collection could not be provisioned.
C20_ProvisioningFailureReported ==
    (event.kind = "create" /\ event.ensure \in {"network", "auth"}) => event.status = 500

-----------------------------------------------------------------------------
(* The settings of one agent updated again and again, lines 821-827 *)

\* what a body can carry for a numeric setting: null (the form's parseFloat('')
\* once serialised), strings, a boolean, a number
NumericInputs == { Null, Str(""), Str("abc"), Str("0.5"), Bool("true"), Num("0.2") }

NumericFields == {"temperature", "topP", "topK"}

UpdateBodies ==
    { [x \in {} |-> <<>>], [instruction |-> <<"I">>], [name |-> <<" ", "N">>] }
    \cup { [f \in {g} |-> v] : g \in NumericFields, v \in NumericInputs }

UpdateInit ==
    /\ HistInit
    /\ agents = [a \in {"a1"} |-> NewAgent(a, <<>>, "")]
    /\ telegramBots = [a \in {} |-> <<>>]
    /\ bots = <<>>
    /\ chatReqs = [s \in ChatSlots |-> Idle]
    /\ chatCount = 0
    /\ adminReqs = [s \in AdminSlots |-> Idle]
    /\ faultsLeft = 0
    /\ cleared = {}
    /\ QuietInit
    /\ event = NoEvent

UpdateNext ==
    \E slot \in AdminSlots, body \in UpdateBodies : AdminPost(slot, "a1", body)

SpecUpdate == UpdateInit /\ [][UpdateNext]_vars

\* a submitted value that is, or spells, a number
ValidNumber(v) == v.type = "number" \/ (v.type = "string" /\ v.val \in NumericStrings)

\* C16: the update applies only the fields provided: temperature, topP and topK
\* change only when the submitted value is a valid number (undefined, null, '',
\* a boolean or a non-numeric string leave them as they are), and an undefined
\* instruction or telegramToken leaves that field unchanged.
C16_OnlyValidFieldsApplied ==
    (event.kind = "admin" /\ event.status # 404) =>
        LET b == event.h.body
            before == event.h.before
            after == event.h.after
        IN  /\ \A f \in NumericFields :
                    after[f] # before[f] => (Has(b, f) /\ ValidNumber(b[f]))
            /\ ~Has(b, "instruction") => after.instruction = before.instruction
            /\ ~Has(b, "telegramToken") => after.telegramToken = before.telegramToken

-----------------------------------------------------------------------------
(* Documents ingested into one agent's collection, lines 828-847 *)

IngestBodies ==
    LET settings == { [x \in {} |-> <<>>], [name |-> <<" ", "N">>] }
        fileLists == { <<"text">>, <<"text", "badjson", "text">>, <<"empty", "text", "json">> }
    IN  { b @@ [files |-> f] : b \in settings, f \in fileLists }
        \cup { [filesNull |-> TRUE, text |-> t] : t \in { <<>>, <<"d">> } }

IngestNext ==
    \/ \E slot \in AdminSlots, body \in IngestBodies : AdminPost(slot, "a1", body)
    \/ \E slot \in AdminSlots, ok \in BOOLEAN, rnd \in Randoms : AdminIngestDone(slot, ok, rnd)
    \/ Tick

SpecIngest == UpdateInit /\ [][IngestNext]_vars

\* the points the request of the last response has added to the store
WrittenBy(e) == SubSeq(points, e.h.base + 1, Len(points))

\* the indexes below n of the files the loop does not skip, in order
Ingestable(files, n) == SelectSeq([j \in 1..n |-> j], LAMBDA j : files[j] # "empty")

C19_RejectedBeforeAnyWrite ==
    (event.kind = "admin" /\ event.status = 400) =>
        /\ WrittenBy(event) = <<>>
        /\ agents[event.agent] = event.h.before

-----------------------------------------------------------------------------
(* Failures at the channel boundary *)

\* C21: no external-facing entry point lets a failure escape uncaught: every failure
\* of a backend call of the bot's message handler, a send that fails inside the
\* handler's own catch block included, is caught and translated into a reply, never
\* an unhandled rejection.
C21_NoFailureEscapes ==
    event.kind = "message" => (~event.escaped /\ event.delivered)

-----------------------------------------------------------------------------
(* Persistence: saveHistory and saveAgents, index.js:58-62 and 77-81 *)

\* how many writeFile calls can be in flight at once
MaxPending == 2

\* A writeFile call settles.  Calls on the same file that are in flight together are
\* not ordered by anything: each opens, truncates and writes on its own, so any of
\* them can be the one that settles now.  A rejection is logged by the .catch and
\* that is all.
WriteDone(i, ok) ==
    /\ i \in 1..Len(disk.writes)
    /\ LET w == disk.writes[i]
           rest == SubSeq(disk.writes, 1, i - 1) \o SubSeq(disk.writes, i + 1, Len(disk.writes))
       IN  /\ disk' = IF ok
                      THEN [disk EXCEPT !.writes = rest, ![w.file] = w.content]
                      ELSE [disk EXCEPT !.writes = rest, !.failed = TRUE]
           /\ event' = [kind |-> "write", file |-> w.file, ok |-> ok]
    /\ UNCHANGED <<histVars, agents, chatVars, botVars, points, savedAgents, clock, createReqs, docReqs, proc, msgVars>>

\* renames of the agent, each saved by the handler's saveAgents()
PersistBodies == { [name |-> <<"N">>], [name |-> <<"M">>] }

PersistInit ==
    /\ HistInit
    /\ agents = [a \in {"a1"} |-> NewAgent(a, <<>>, "")]
    /\ telegramBots = [a \in {} |-> <<>>]
    /\ bots = <<>>
    /\ chatReqs = [s \in ChatSlots |-> Idle]
    /\ chatCount = 0
    /\ adminReqs = [s \in AdminSlots |-> Idle]
    /\ faultsLeft = 0
    /\ cleared = {}
    /\ points = <<>>
    /\ savedAgents = agents
    /\ clock = 1
    /\ createReqs = [s \in CreateSlots |-> Idle]
    /\ docReqs = [s \in DocSlots |-> Idle]
    /\ proc = Running
    /\ disk = [NoWrites(telegramHistory, agents) EXCEPT !.follow = TRUE]
    /\ msgReqs = [s \in MsgSlots |-> Idle]
    /\ tgSent = <<>>
    /\ msgCount = 0
    /\ event = NoEvent

PersistNext ==
    \/ Len(disk.writes) < MaxPending /\ AddTelegramMessage("a1", "c1", "user", <<"x">>)
    \/ \E body \in PersistBodies :
            Len(disk.writes) < MaxPending /\ AdminPost(1, "a1", body)
    \/ \E i \in 1..MaxPending + 1, ok \in BOOLEAN : WriteDone(i, ok)

SpecPersist == PersistInit /\ [][PersistNext]_vars

\* number of turns ever appended to the bot-channel buckets
RECURSIVE LogTotal(_, _)
LogTotal(log, keys) ==
    IF keys = {} THEN 0
    ELSE LET k == CHOOSE x \in keys : TRUE
         IN  Len(log[k]) + LogTotal(log, keys \ {k})

TgAppendCount == LogTotal(tgAppended, DOMAIN tgAppended)

\* C22: every append to a bot-channel bucket issues a write of the whole history
\* table, and a write that settles, failed or not, changes nothing in memory: the
\* history tables and the registry are after it what they were before.
C22_AppendWritesFailureKeepsMemory ==
    [][/\ TgAppendCount' > TgAppendCount =>
            /\ Len(disk'.writes) = Len(disk.writes) + 1
            /\ disk'.writes[Len(disk'.writes)] = [file |-> "history", content |-> telegramHistory']
       /\ Len(disk'.writes) < Len(disk.writes) =>
            UNCHANGED <<telegramHistory, dashboardHistory, agents>>]_vars

C22_Witness ==
    /\ event.kind = "write" /\ ~event.ok /\ event.file = "history"
    /\ disk.writes = <<>>
    /\ disk.history # telegramHistory
    /\ TgAppendCount >= 2

\* C23: once every write issued has completed without error and none is in flight,
\* the history file and the agents file hold the tables in memory, also when several
\* saves were issued back to back and their writes complete in any order.
C23_FlushedFilesEqualMemory ==
    (disk.follow /\ disk.writes = <<>> /\ ~disk.failed) =>
        (disk.history = telegramHistory /\ disk.agents = agents)

-----------------------------------------------------------------------------
(* The prompt askLLM builds, index.js:201-208, for any agent, context, question
   and history *)

\* longest history handed to askLLM
MaxHistory == 7

\* the histories of at most n turns
RECURSIVE Histories(_)
Histories(n) ==
    IF n = 0 THEN { <<>> }
    ELSE LET shorter == Histories(n - 1)
         IN  shorter \cup { Append(h, Turn(r, <<"x">>)) : h \in { g \in shorter : Len(g) = n - 1 }, r \in Roles }

PromptInstructions == { <<>>, <<"B", "e", " ", "k", "i", "n", "d">> }
PromptContexts == { <<>>, <<"d", "1">> }

\* askLLM is called and builds its request; the request depends on the arguments
\* alone, so one call from the initial state stands for a call from any state
BuildPrompt(instruction, context, question, history) ==
    /\ event = NoEvent
    /\ event' = [kind |-> "prompt", instruction |-> instruction, context |-> context,
                 question |-> question, history |-> history,
                 messages |-> LLMMessages([NewAgent("a1", <<>>, "") EXCEPT !.instruction = instruction],
                                          context, question, history)]
    /\ UNCHANGED <<histVars, agents, chatVars, botVars, regVars, msgVars>>

PromptNext ==
    \E i \in PromptInstructions, c \in PromptContexts, q \in Messages, h \in Histories(MaxHistory) :
        BuildPrompt(i, c, q, h)

SpecPrompt == UpdateInit /\ [][PromptNext]_vars

\* C24: the prompt is, in order, one system message (the agent's instruction, the
\* generic default when it is empty), then at most the last 5 history turns with
\* role "bot" mapped to assistant, then one user message whose content is context,
\* blank line, question when the context is non-empty and the question alone
\* otherwise; it never has more than 7 messages.
C24_PromptShape ==
    event.kind = "prompt" =>
        LET m == event.messages
            h == event.history
            n == IF Len(h) > 5 THEN 5 ELSE Len(h)
        IN  /\ Len(m) = n + 2
            /\ Len(m) <= 7
            /\ m[1] = [role |-> "system",
                       content |-> IF event.instruction = <<>> THEN DefaultInstruction
                                   ELSE event.instruction]
            /\ \A i \in 1..n :
                    LET t == h[Len(h) - n + i]
                    IN  /\ m[1 + i].content = t.text
                        /\ m[1 + i].role = (IF t.role = "bot" THEN "assistant" ELSE "user")
            /\ m[Len(m)].role = "user"
            /\ m[Len(m)].content = (IF event.context = <<>> THEN event.question
                                    ELSE event.context \o <<"\n", "\n">> \o event.question)

C24_Witness ==
    /\ event.kind = "prompt"
    /\ Len(event.history) > 5
    /\ event.history[1].role # event.history[Len(event.history) - 4].role
    /\ event.context # <<>>
    /\ event.instruction = <<>>
    /\ Len(event.messages) = 7
    /\ event.messages[2].role = "assistant"

-----------------------------------------------------------------------------
(* The retrieval depth *)

\* the literals of the model that are positive integers
PositiveIntegers == {"1", "2", "3", "5"}

\* C29: in every reachable state of the registry each agent's topK is a positive
\* integer, whatever values create and update requests submit.
C29_TopKPositiveInteger ==
    \A id \in DOMAIN agents :
        agents[id].topK.type = "number" /\ agents[id].topK.val \in PositiveIntegers

-----------------------------------------------------------------------------
(* Point ids *)

\* the step is an ingestDocument of a POST /admin/:id that settled with true
IngestSucceeded ==
    \E s \in AdminSlots :
        /\ adminReqs[s].pc = "ingest"
        /\ adminReqs'[s] # adminReqs[s]
        /\ ~(event'.kind = "admin" /\ event'.status = 500)

\* C30: every successful ingestDocument writes its point under an id no point of the
\* collection has: it adds one point and replaces none.
C30_IngestAddsOnePoint ==
    [][IngestSucceeded =>
            /\ Len(points') = Len(points) + 1
            /\ SubSeq(points', 1, Len(points)) = points]_vars

-----------------------------------------------------------------------------
(* The documents of an agent, GET /docs/:agentId and DELETE /docs/:agentId/:id,
   index.js:172-193 and 853-873 *)

\* `limit: 50` of the scroll request (index.js:177)
PageSize == 50

\* number of points of the collection SpecList lists
MaxDocs == 101

\* `offset` while it is undefined, and a next_page_offset of null: no point has the
\* id 0
NoOffset == 0

\* the ids of the points a collection holds
IdsOf(store, collection) ==
    { store[j].id : j \in { k \in DOMAIN store : store[k].collection = collection } }

PointOf(store, collection, id) ==
    store[CHOOSE j \in DOMAIN store : store[j].collection = collection /\ store[j].id = id]

RECURSIVE Ascending(_)
Ascending(S) ==
    IF S = {} THEN <<>>
    ELSE LET least == CHOOSE x \in S : \A y \in S : x <= y
         IN  <<least>> \o Ascending(S \ {least})

\* qdrant.scroll(collection, { limit, offset }): the points of the collection in the
\* order of their ids, from the id `offset` on, `limit` of them at most, and the id
\* of the point that follows them, if there is one
Scroll(store, collection, limit, offset) ==
    LET ids == Ascending({ i \in IdsOf(store, collection) : offset = NoOffset \/ i >= offset })
        n == IF Len(ids) < limit THEN Len(ids) ELSE limit
    IN  [points |-> [k \in 1..n |-> PointOf(store, collection, ids[k])],
         next_page_offset |-> IF Len(ids) > limit THEN ids[limit + 1] ELSE NoOffset]

\* res.points.map(p => ({ id: p.id, name: p.payload?.name })): the payload's name is
\* the file the point was made from
Docs(page) == [k \in DOMAIN page |-> [id |-> page[k].id, name |-> page[k].kind]]

ListContinueNever(offset) == FALSE

\* `while (offset != null)`  (index.js:180)
ListContinue(offset) == offset # NoOffset

\* qdrant.delete(collection, { points: [id] }): the point of the collection that has
\* the id leaves the store, if there is one
DeletePoint(store, collection, id) ==
    SelectSeq(store, LAMBDA p : ~(p.collection = collection /\ p.id = id))

\* the agent ids of the /docs requests: "a9" is never created
DocAgentIds == AgentIds \cup {"a9"}

\* the :id segments of DELETE /docs/:agentId/:id
IdParams == {"1", "2", "3", "abc"}

Decimals == ("1" :> 1) @@ ("2" :> 2) @@ ("3" :> 3)

\* Number(idParam) (index.js:869): the number a decimal literal spells, NaN otherwise
Number(idParam) ==
    IF idParam \in DOMAIN Decimals
    THEN [type |-> "number", val |-> Decimals[idParam]]
    ELSE [type |-> "NaN"]

\* how qdrant.delete can settle: done, the request refused as malformed, the store
\* unreachable
DeleteOutcomes == {"ok", "rejected", "down"}

\* line 855 of GET /docs/:agentId
DocsListNotFoundBackendFailure(id) ==
    /\ id \notin DOMAIN agents
    /\ event' = [kind |-> "docsList", agent |-> id, status |-> 500]
    /\ UNCHANGED <<histVars, agents, chatVars, botVars, regVars, msgVars>>

DocsListNotFound(id) ==
    /\ id \notin DOMAIN agents
    /\ event' = [kind |-> "docsList", agent |-> id, status |-> 404]
    /\ UNCHANGED <<histVars, agents, chatVars, botVars, regVars, msgVars>>

\* lines 854-857 and 173: up to `await ensureCollection(collection)` of listDocs
DocsList(slot, id) ==
    /\ docReqs[slot] = Idle
    /\ id \in DOMAIN agents
    /\ docReqs' = [docReqs EXCEPT ![slot] =
            [pc |-> "ensureCollection", agent |-> id, collection |-> agents[id].collection]]
    /\ event' = NoEvent
    /\ UNCHANGED <<histVars, agents, chatVars, botVars, points, savedAgents, clock,
                   createReqs, proc, disk, msgVars>>

\* ensureCollection settles; lines 174-177, up to the first `await qdrant.scroll(...)`
ListEnsureDone(slot, outcome) ==
    /\ docReqs[slot].pc = "ensureCollection"
    /\ ensureCollection(outcome) = "resolved"
    /\ docReqs' = [docReqs EXCEPT ![slot] =
            [pc |-> "scroll", agent |-> @.agent, collection |-> @.collection,
             docs |-> <<>>, offset |-> NoOffset, pages |-> 0]]
    /\ event' = NoEvent
    /\ UNCHANGED <<histVars, agents, chatVars, botVars, points, savedAgents, clock,
                   createReqs, proc, disk, msgVars>>

\* a scroll settles; lines 178-181, and 858 or 859-861 when the loop is left
ScrollDone(slot, ok) ==
    /\ docReqs[slot].pc = "scroll"
    /\ LET r == docReqs[slot]
           res == Scroll(points, r.collection, PageSize, r.offset)
           docs == r.docs \o Docs(res.points)
           offset == res.next_page_offset
       IN  IF ~ok
           THEN /\ docReqs' = [docReqs EXCEPT ![slot] = Idle]
                /\ event' = [kind |-> "docsList", agent |-> r.agent, status |-> 500]
           ELSE IF ListContinue(offset)
           THEN /\ docReqs' = [docReqs EXCEPT ![slot] =
                        [r EXCEPT !.docs = docs, !.offset = offset, !.pages = @ + 1]]
                /\ event' = NoEvent
           ELSE /\ docReqs' = [docReqs EXCEPT ![slot] = Idle]
                /\ event' = [kind |-> "docsList", agent |-> r.agent, status |-> 200,
                             docs |-> docs, pages |-> r.pages + 1]
    /\ UNCHANGED <<histVars, agents, chatVars, botVars, points, savedAgents, clock,
                   createReqs, proc, disk, msgVars>>

\* line 867 of DELETE /docs/:agentId/:id
DocsDeleteNotFound(id) ==
    /\ id \notin DOMAIN agents
    /\ event' = [kind |-> "docsDelete", agent |-> id, status |-> 404]
    /\ UNCHANGED <<histVars, agents, chatVars, botVars, regVars, msgVars>>

\* lines 866-870 and 185-187: up to `await qdrant.delete(...)` of removeDoc
DocsDelete(slot, id, idParam) ==
    /\ docReqs[slot] = Idle
    /\ id \in DOMAIN agents
    /\ docReqs' = [docReqs EXCEPT ![slot] =
            [pc |-> "delete", agent |-> id, collection |-> agents[id].collection,
             id |-> Number(idParam)]]
    /\ event' = NoEvent
    /\ UNCHANGED <<histVars, agents, chatVars, botVars, points, savedAgents, clock,
                   createReqs, proc, disk, msgVars>>

\* qdrant.delete settles; lines 188-192 and 871-872.  NaN is sent as null, which is
\* no point id: the store refuses the request.
RemoveDocDone(slot, outcome) ==
    /\ docReqs[slot].pc = "delete"
    /\ LET r == docReqs[slot]
       IN  /\ outcome = "ok" => r.id.type = "number"
           /\ outcome = "rejected" => r.id.type = "NaN"
           /\ points' = IF outcome = "ok" THEN DeletePoint(points, r.collection, r.id.val)
                        ELSE points
           /\ event' = [kind |-> "docsDelete", agent |-> r.agent, id |-> r.id,
                        collection |-> r.collection, backend |-> outcome,
                        status |-> IF outcome = "ok" THEN 200 ELSE 500, before |-> points]
    /\ docReqs' = [docReqs EXCEPT ![slot] = Idle]
    /\ UNCHANGED <<histVars, agents, chatVars, botVars, savedAgents, clock,
                   createReqs, proc, disk, msgVars>>

\* the stores the documents' specification starts from: the first agent's collection
\* holds the points 1 and 2, either or none, the second's the point 1 or none
DocStores ==
    { SelectSeq(<< Point("agent_a1", <<"text">>, 1, 1), Point("agent_a2", <<"text">>, 1, 1),
                   Point("agent_a1", <<"json">>, 1, 2) >>,
                LAMBDA p : <<p.collection, p.id>> \in keep) :
      keep \in SUBSET {<<"agent_a1", 1>>, <<"agent_a2", 1>>, <<"agent_a1", 2>>} }

DocsInit ==
    /\ HistInit
    /\ agents = [a \in AgentIds |-> NewAgent(a, <<>>, "")]
    /\ telegramBots = [a \in {} |-> <<>>]
    /\ bots = <<>>
    /\ chatReqs = [s \in ChatSlots |-> Idle]
    /\ chatCount = 0
    /\ adminReqs = [s \in AdminSlots |-> Idle]
    /\ faultsLeft = 0
    /\ cleared = {}
    /\ points \in DocStores
    /\ savedAgents = agents
    /\ clock = 1
    /\ createReqs = [s \in CreateSlots |-> Idle]
    /\ docReqs = [s \in DocSlots |-> Idle]
    /\ proc = Running
    /\ disk = NoWrites(telegramHistory, agents)
    /\ msgReqs = [s \in MsgSlots |-> Idle]
    /\ tgSent = <<>>
    /\ msgCount = 0
    /\ event = NoEvent

DocsNext ==
    \/ \E id \in DocAgentIds : AdminPostNotFound(id)
    \/ \E id \in DocAgentIds : ChatPostNotFound(id)
    \/ \E id \in DocAgentIds : DocsListNotFound(id)
    \/ \E id \in DocAgentIds : DocsDeleteNotFound(id)
    \/ \E slot \in DocSlots, id \in DocAgentIds : DocsList(slot, id)
    \/ \E slot \in DocSlots, outcome \in EnsureOutcomes : ListEnsureDone(slot, outcome)
    \/ \E slot \in DocSlots, ok \in BOOLEAN : ScrollDone(slot, ok)
    \/ \E slot \in DocSlots, id \in DocAgentIds, idParam \in IdParams : DocsDelete(slot, id, idParam)
    \/ \E slot \in DocSlots, outcome \in DeleteOutcomes : RemoveDocDone(slot, outcome)

SpecDocs == DocsInit /\ [][DocsNext]_vars

\* C25: a delete the store was reachable for reports success and takes out of the
\* store the point of the agent's collection that has the id, and no other: the
\* store is unchanged when the id is not stored, as it is on a second delete.
C25_DeleteIdempotent ==
    (event.kind = "docsDelete" /\ event.status # 404 /\ event.backend # "down") =>
        /\ event.status = 200
        /\ Len(points) <= Len(event.before)
        /\ \A p \in Range(event.before) :
                p \in Range(points) <=> ~(p.collection = event.collection /\ p.id = event.id.val)
        /\ \A p \in Range(points) : p \in Range(event.before)

\* the requests to an agent id the registry does not hold
UnknownAgentEvents == {"admin", "chat", "docsList", "docsDelete"}

\* C27: every admin update, document listing, document delete and web chat addressed
\* to an id the registry does not hold is answered 404 in the step that receives it,
\* which changes no agent, no point, no history, no supervisor entry and no bot
\* instance; no handler is ever suspended on behalf of such an id.
C27_UnknownAgentNotFound ==
    /\ [](\A s \in DocSlots : docReqs[s] # Idle => docReqs[s].agent \in DOMAIN agents)
    /\ [][(event'.kind \in UnknownAgentEvents /\ event'.agent \notin DOMAIN agents) =>
            /\ event'.status = 404
            /\ UNCHANGED <<telegramHistory, dashboardHistory, agents, savedAgents, points,
                           telegramBots, bots, disk>>]_vars

C27_Witness ==
    /\ event.kind = "docsDelete" /\ event.agent \notin DOMAIN agents
    /\ event.status = 404
    /\ points # <<>>

-----------------------------------------------------------------------------
(* Listing a collection of more than one page *)

\* the collections of SpecList: n points, stored in the order of their ids or
\* against it
ListStores ==
    { [j \in 1..n |-> Point("agent_a1", <<"text">>, 1, IF up THEN j ELSE n + 1 - j)] :
        n \in 0..MaxDocs, up \in BOOLEAN }

ListInit ==
    /\ HistInit
    /\ agents = [a \in {"a1"} |-> NewAgent(a, <<>>, "")]
    /\ telegramBots = [a \in {} |-> <<>>]
    /\ bots = <<>>
    /\ chatReqs = [s \in ChatSlots |-> Idle]
    /\ chatCount = 0
    /\ adminReqs = [s \in AdminSlots |-> Idle]
    /\ faultsLeft = 0
    /\ cleared = {}
    /\ points \in ListStores
    /\ savedAgents = agents
    /\ clock = 1
    /\ createReqs = [s \in CreateSlots |-> Idle]
    /\ docReqs = [s \in DocSlots |-> Idle]
    /\ proc = Running
    /\ disk = NoWrites(telegramHistory, agents)
    /\ msgReqs = [s \in MsgSlots |-> Idle]
    /\ tgSent = <<>>
    /\ msgCount = 0
    /\ event = NoEvent

ListNext ==
    \/ DocsList(1, "a1")
    \/ \E outcome \in EnsureOutcomes : ListEnsureDone(1, outcome)
    \/ \E ok \in BOOLEAN : ScrollDone(1, ok)

SpecList == ListInit /\ [][ListNext]_vars

\* C26: a listing that is answered 200 holds every point of the collection exactly
\* once, and took no more scroll requests than the collection has full pages, plus
\* one: the loop ends, also for a collection of more than PageSize points.
C26_ListReturnsEveryPointOnce ==
    (event.kind = "docsList" /\ event.status = 200) =>
        LET ids == IdsOf(points, agents[event.agent].collection)
        IN  /\ Len(event.docs) = Cardinality(ids)
            /\ { event.docs[k].id : k \in DOMAIN event.docs } = ids
            /\ event.pages <= Cardinality(ids) \div PageSize + 1

C26_Witness ==
    /\ event.kind = "docsList" /\ event.status = 200
    /\ Len(event.docs) > 2 * PageSize
    /\ event.pages = 3

-----------------------------------------------------------------------------
(* Shutdown, index.js:991-996 *)

\* the two signals `shutdown` is registered for, each with process.once
Signals == {"SIGINT", "SIGTERM"}

\* Object.values(telegramBots).map((b) => b.bot)
TableBots(tb) == { tb[a].bot : a \in DOMAIN tb }

\* shutdown(), run by the once-handler of a signal: stopPolling() is called on the
\* instance of every entry of the supervisor table, and process.exit() is chained to
\* the Promise.all of these calls.  A stop of an instance that is not polling is
\* settled already; when none is left to wait for, the process exits in this step.
shutdown(sig) ==
    /\ proc.pc = "running"
    /\ sig \notin proc.caught
    /\ LET table == TableBots(telegramBots)
           bs == [b \in DOMAIN bots |->
                    IF b \in table THEN StopPollingCall(bots, b)[b] ELSE bots[b]]
           waiting == { b \in table : bs[b].stopping }
       IN  /\ bots' = bs
           /\ proc' = [pc |-> IF waiting = {} THEN "exited" ELSE "running",
                       caught |-> proc.caught \cup {sig},
                       joins |-> IF waiting = {} THEN proc.joins
                                 ELSE Append(proc.joins, waiting),
                       issued |-> proc.issued \cup table]
           /\ event' = [kind |-> "signal", signal |-> sig, table |-> table]
    /\ UNCHANGED <<histVars, agents, chatVars, telegramBots, adminReqs, faultsLeft, cleared,
                   points, savedAgents, clock, createReqs, docReqs, disk, msgVars>>

\* a stopPolling() settles, resolved or rejected: `.catch(() => {})` makes either a
\* settled element of every Promise.all that holds it, and .finally(() =>
\* process.exit()) runs for a Promise.all that has no element left to wait for
ShutdownStopDone(b, ok) ==
    /\ bots[b].stopping
    /\ bots' = [bots EXCEPT ![b] =
            [@ EXCEPT !.stopping = FALSE, !.polling = IF ok THEN FALSE ELSE @]]
    /\ LET joins == [k \in DOMAIN proc.joins |-> proc.joins[k] \ {b}]
       IN  proc' = [proc EXCEPT !.joins = joins,
                                !.pc = IF \E k \in DOMAIN joins : joins[k] = {}
                                       THEN "exited" ELSE @]
    /\ event' = [kind |-> "stopSettled", bot |-> b, ok |-> ok]
    /\ UNCHANGED <<histVars, agents, chatVars, telegramBots, adminReqs, faultsLeft, cleared,
                   points, savedAgents, clock, createReqs, docReqs, disk, msgVars>>

\* the credentials the settings form can send while the process shuts down
ShutdownBodies == { [telegramToken |-> t] : t \in {""} \cup Tokens }

\* one agent with its connection up, one agent without a credential
ShutdownInit ==
    /\ HistInit
    /\ agents = [a \in AgentIds |-> NewAgent(a, <<>>, IF a = "a1" THEN "t1" ELSE "")]
    /\ telegramBots = [a \in {"a1"} |-> [bot |-> 1, token |-> "t1"]]
    /\ bots = << PollingBot("a1", "t1") >>
    /\ chatReqs = [s \in ChatSlots |-> Idle]
    /\ chatCount = 0
    /\ adminReqs = [s \in AdminSlots |-> Idle]
    /\ faultsLeft = 0
    /\ cleared = {}
    /\ QuietInit
    /\ event = NoEvent

\* the HTTP server is not closed by shutdown: requests are served until the exit
ShutdownNext ==
    \/ \E sig \in Signals : shutdown(sig)
    \/ \E b \in BotIds, ok \in BOOLEAN : proc.pc = "running" /\ ShutdownStopDone(b, ok)
    \/ \E slot \in AdminSlots, id \in AgentIds, body \in ShutdownBodies :
            proc.pc = "running" /\ AdminPost(slot, id, body)
    \/ \E b \in BotIds : proc.pc = "running" /\ DeleteWebHookDone(b, "ok")
    \/ \E b \in BotIds : proc.pc = "running" /\ StartPollingDone(b, "ok")

SpecShutdown == ShutdownInit /\ [][ShutdownNext]_vars

\* C28: when the process has exited, no Promise.all of shutdown still waits for a
\* stopPolling() it issued: the stop of every connection that was in the supervisor
\* table when shutdown ran has settled, resolved or rejected.
C28_ExitAfterEveryStopSettled ==
    proc.pc = "exited" => \A k \in DOMAIN proc.joins : proc.joins[k] = {}

-----------------------------------------------------------------------------
(* The question in the prompt *)

\* C36: in the prompt a web chat request sends to the generation backend, no history
\* message carries the current question when the session's bucket never held a
\* turn with that text: the question is in the final user message only.
C36_QuestionOnlyInFinalMessage ==
    \A s \in ChatSlots :
        (/\ chatReqs[s].pc = "askLLM"
         /\ \A t \in Range(GetOrEmpty(dashAppended, chatReqs[s].sessionId)) :
                t.text # chatReqs[s].message)
        => \A i \in 2..(Len(chatReqs[s].messages) - 1) :
                chatReqs[s].messages[i].content # chatReqs[s].message

-----------------------------------------------------------------------------
(* The supervisor table and the registry *)

\* the supervisor table holds an entry for the agent exactly when the agent has a
\* credential
EntryIffCredential(id) ==
    id \in DOMAIN telegramBots <=> agents[id].telegramToken # ""

\* the agents some POST /agents is still suspended for
BeingCreated == { createReqs[s].id : s \in { x \in CreateSlots : createReqs[x] # Idle } }

\* C31: when a POST /agents has responded, the supervisor table has an entry for
\* every agent whose telegramToken is non-empty and none for an agent whose
\* telegramToken is empty (agents a request is still in flight for aside).
C31_EntryForEveryCredential ==
    (event.kind = "create" /\ \A s \in AdminSlots : adminReqs[s] = Idle) =>
        \A id \in DOMAIN agents \ BeingCreated : EntryIffCredential(id)

\* C34: whenever no admin request is in flight, telegramBots has an entry for an
\* agent exactly when the agent's telegramToken is non-empty, and the entry's token
\* is the agent's telegramToken.
C34_TableAgreesWithRegistry ==
    (\A s \in AdminSlots : adminReqs[s] = Idle) =>
        \A id \in DOMAIN agents \ BeingCreated :
            /\ EntryIffCredential(id)
            /\ id \in DOMAIN telegramBots => telegramBots[id].token = agents[id].telegramToken

\* the instance has a start attempt in flight, a retry scheduled or a restart chain
\* running
Connecting(b) ==
    bots[b].startPc \in {"deleteWebHook", "startPolling", "timer"} \/ bots[b].restart # "none"

\* C35: the instance of every entry of the supervisor table is connecting or
\* polling: an agent whose start failed for good has no entry.
C35_EntryOnlyWhileConnectingOrPolling ==
    \A a \in DOMAIN telegramBots :
        Connecting(telegramBots[a].bot) \/ bots[telegramBots[a].bot].polling

-----------------------------------------------------------------------------
(* The order of the Telegram calls *)

\* C32: an instance's startPolling is issued only in the step in which its
\* deleteWebHook resolved, in the start closure (first attempt and retries alike) and
\* in the polling_error chain, where the deleteWebHook is issued only in the step in
\* which the chain's stopPolling resolved; an instance begins to poll only when such
\* a startPolling resolves.
C32_WebhookClearedBeforePolling ==
    [][\A b \in BotIds :
        /\ (bots'[b].startPc = "startPolling" /\ bots[b].startPc # "startPolling")
                => (bots[b].startPc = "deleteWebHook" /\ faultsLeft' = faultsLeft)
        /\ (bots'[b].restart = "startPolling" /\ bots[b].restart # "startPolling")
                => (bots[b].restart = "deleteWebHook" /\ faultsLeft' = faultsLeft)
        /\ (bots'[b].restart = "deleteWebHook" /\ bots[b].restart # "deleteWebHook")
                => (bots[b].restart = "stopPolling" /\ faultsLeft' = faultsLeft)
        /\ (bots'[b].polling /\ ~bots[b].polling)
                => (/\ bots[b].startPc = "startPolling" \/ bots[b].restart = "startPolling"
                    /\ faultsLeft' = faultsLeft)]_vars

\* a connection that came up on a retry and came up again after a polling_error
\* conflict
C32_Witness ==
    \E b \in BotIds :
        /\ bots[b].polling
        /\ bots[b].attemptsMade >= 2
        /\ bots[b].restarts >= 1
        /\ bots[b].restart = "none"

-----------------------------------------------------------------------------
(* Two messages of one chat handled at the same time *)

\* C33: when the handlers of two messages of one chat have both ended, the bucket is
\* the last 5 of the turns appended to it, and these are four turns: the user turn
\* and the bot turn of one exchange, then the user turn and the bot turn of the
\* other.
C33_ConcurrentExchangesKeptWhole ==
    (msgCount = 2 /\ \A s \in MsgSlots : msgReqs[s] = Idle) =>
        LET log == tgAppended[<<"a1", "c1">>]
        IN  /\ telegramHistory["a1"]["c1"] = SliceLast(log, HistoryWindow)
            /\ Len(log) = 4
            /\ \A k \in {1, 3} : log[k].role = "user" /\ log[k + 1].role = "bot"

====
